---- MODULE Spec2Model ----
(***************************************************************************)
(* Byte-level BPE: training (cs336_basics/bpe/train_bpe.py), the chunker   *)
(* and file pre-tokenizer (cs336_basics/bpe/pretokenization.py) and the    *)
(* encoder/decoder (cs336_basics/bpe/tokenizer.py).                        *)
(*                                                                         *)
(* A byte string is a sequence of byte values 0..255.  Python offsets are  *)
(* 0-based; the operators below keep the 0-based offsets of the source and *)
(* convert at the point of indexing.  Where the source binds a local and   *)
(* uses it several times, the model passes it on as the argument of a      *)
(* helper operator.                                                        *)
(***************************************************************************)
EXTENDS Integers, Sequences, FiniteSets, TLC

\* ------------------------------------------------------------------------
\* Bounds of the model
\* ------------------------------------------------------------------------
\* longest corpus enumerated exhaustively over Alphabet
MaxCorpusLen == 3
\* largest chunk count (num_processes) tried
MaxProcesses == 2
\* vocab_size values tried are 256 + |specials| + 1 and 256 + MaxNewTokens
MaxNewTokens == 6
\* longest text handed to Tokenizer.encode
MaxTextLen == 3
\* most nodes created for one DoublyLinkedList
MaxNodes == 4

\* ------------------------------------------------------------------------
\* Program constants
\* ------------------------------------------------------------------------
NumBaseBytes == 256
mini_chunk_size == 4096
\* the space and the apostrophe of PAT_BYTES
SP == 32
APOS == 39

\* ------------------------------------------------------------------------
\* Byte strings
\* ------------------------------------------------------------------------
Min(S) == CHOOSE x \in S : \A y \in S : x <= y
Max(S) == CHOOSE x \in S : \A y \in S : x >= y

Range(f) == {f[x] : x \in DOMAIN f}

\* b[s:e] with Python's clamping of the end offset
Slice(b, s, e) == SubSeq(b, s + 1, IF e > Len(b) THEN Len(b) ELSE e)

\* b[-n:] for n >= 1
LastN(b, n) == IF n >= Len(b) THEN b ELSE SubSeq(b, Len(b) - n + 1, Len(b))

RemoveAt(seq, k) == SubSeq(seq, 1, k - 1) \o SubSeq(seq, k + 1, Len(seq))

\* tok occurs in b at offset p
MatchesAt(b, p, tok) ==
    /\ p + Len(tok) <= Len(b)
    /\ \A k \in 1..Len(tok) : b[p + k] = tok[k]

\* the least element of a set of offsets, -1 for the empty set
MinOrNone(hits) == IF hits = {} THEN -1 ELSE Min(hits)

\* bytes.find(tok, start): least offset >= start where tok occurs, else -1
Find(b, tok, start) == MinOrNone({p \in start..Len(b) : MatchesAt(b, p, tok)})

\* Python's ordering of bytes objects: byte-wise lexicographic, a proper
\* prefix is smaller
RECURSIVE BytesLess(_, _)
BytesLess(x, y) ==
    IF y = <<>> THEN FALSE
    ELSE IF x = <<>> THEN TRUE
    ELSE IF Head(x) # Head(y) THEN Head(x) < Head(y)
    ELSE BytesLess(Tail(x), Tail(y))

\* Python's ordering of 2-tuples of bytes objects
TupleLess(s, t) ==
    IF s[1] = t[1] THEN BytesLess(s[2], t[2]) ELSE BytesLess(s[1], t[1])

RECURSIVE Flatten(_)
Flatten(ss) == IF ss = <<>> THEN <<>> ELSE Head(ss) \o Flatten(Tail(ss))

\* ------------------------------------------------------------------------
\* The pre-tokenization pattern PAT_BYTES on ASCII bytes
\*   '(?:[sdmt]|ll|ve|re)| ?\p{L}+| ?\p{N}+| ?[^\s\p{L}\p{N}]+|\s+(?!\S)|\s+
\* ------------------------------------------------------------------------
\* \s, \p{L}, \p{N} and [^\s\p{L}\p{N}] as sets of ASCII bytes
SpaceBytes == {9, 10, 11, 12, 13, 32}
LetterBytes == (65..90) \cup (97..122)
DigitBytes == 48..57
OtherBytes == (0..255) \ (SpaceBytes \cup LetterBytes \cup DigitBytes)

\* length of the longest run of bytes of one class starting at offset j
RECURSIVE RunLen(_, _, _)
RunLen(b, j, Cls) ==
    IF j < Len(b) /\ b[j + 1] \in Cls THEN 1 + RunLen(b, j + 1, Cls) ELSE 0

\* ' ?X+' at offset j: length matched, 0 if the alternative fails.  The
\* space is taken when an X follows it; a space is no X.
OptSpaceRun(b, j, Cls) ==
    IF j + 1 < Len(b) /\ b[j + 1] = SP /\ b[j + 2] \in Cls
    THEN 1 + RunLen(b, j + 1, Cls)
    ELSE RunLen(b, j, Cls)

\* '(?:[sdmt]|ll|ve|re) at offset j
Contraction(b, j) ==
    IF ~(j < Len(b) /\ b[j + 1] = APOS) THEN 0
    ELSE IF j + 1 < Len(b) /\ b[j + 2] \in {115, 100, 109, 116} THEN 2
    ELSE IF MatchesAt(b, j + 1, <<108, 108>>) THEN 3
    ELSE IF MatchesAt(b, j + 1, <<118, 101>>) THEN 3
    ELSE IF MatchesAt(b, j + 1, <<114, 101>>) THEN 3
    ELSE 0

\* \s+(?!\S) given the length r of the whitespace run at offset j: the whole
\* run when it reaches the end of the buffer, else the run less its last
\* byte (backtracking)
SpaceNotBeforeWordOf(b, j, r) ==
    IF r = 0 THEN 0
    ELSE IF j + r = Len(b) THEN r
    ELSE r - 1

SpaceNotBeforeWord(b, j) == SpaceNotBeforeWordOf(b, j, RunLen(b, j, SpaceBytes))

\* the first alternative that matches: the first positive length of a list
FirstMatch(lens) ==
    IF \A k \in 1..Len(lens) : lens[k] = 0 THEN 0
    ELSE lens[Min({k \in 1..Len(lens) : lens[k] > 0})]

\* PAT_BYTES.match(b, j): length of the match at offset j, 0 if none.  The
\* alternatives are tried in order and the first that matches is taken.
PatMatchLen(b, j) ==
    FirstMatch(<<Contraction(b, j),
                 OptSpaceRun(b, j, LetterBytes),
                 OptSpaceRun(b, j, DigitBytes),
                 OptSpaceRun(b, j, OtherBytes),
                 SpaceNotBeforeWord(b, j),
                 RunLen(b, j, SpaceBytes)>>)

\* PAT_BYTES.finditer(seg): the matches from offset j on, in order; an
\* offset where nothing matches is skipped
RECURSIVE PatFindIter(_, _)
PatFindStep(seg, j, n) ==
    IF n = 0 THEN PatFindIter(seg, j + 1)
    ELSE <<Slice(seg, j, j + n)>> \o PatFindIter(seg, j + n)

PatFindIter(seg, j) ==
    IF j >= Len(seg) THEN <<>> ELSE PatFindStep(seg, j, PatMatchLen(seg, j))

\* emit_normal_segment: the pre-tokens of a Normal segment
emit_normal_segment(seg) == PatFindIter(seg, 0)

\* ------------------------------------------------------------------------
\* find_chunk_boundaries (cs336_basics/bpe/pretokenization.py)
\* ------------------------------------------------------------------------
\* sorted(set(xs)) of a list of integers
RECURSIVE SortedSet(_)
SortedSet(S) ==
    IF S = {} THEN <<>> ELSE <<Min(S)>> \o SortedSet(S \ {Min(S)})

\* the absolute offsets at which some special token is found in the window
WindowHits(window, window_start, special_tokens_bytes) ==
    {window_start + Find(window, special_tokens_bytes[k], 0) :
        k \in {k \in 1..Len(special_tokens_bytes) :
                  Find(window, special_tokens_bytes[k], 0) # -1}}

\* tail = window[-(max_tok_len - 1):] if max_tok_len > 1 else b""
NextTail(window, max_tok_len) ==
    IF max_tok_len > 1 THEN LastN(window, max_tok_len - 1) ELSE <<>>

\* the `while True` scan of one interior boundary: reads of mini_chunk_size
\* bytes from absolute_pos on, with the carried tail in front;
\* max_tok_len = len(special_tokens_bytes)
RECURSIVE ScanBoundary(_, _, _, _)
ScanWindow(file, next_pos, window, special_tokens_bytes, hits) ==
    IF hits # {} THEN Min(hits)
    ELSE ScanBoundary(file, next_pos,
                      NextTail(window, Len(special_tokens_bytes)),
                      special_tokens_bytes)

ScanRead(file, absolute_pos, tail, special_tokens_bytes, mini_chunk) ==
    IF mini_chunk = <<>> THEN Len(file)
    ELSE ScanWindow(file, absolute_pos + Len(mini_chunk), tail \o mini_chunk,
                    special_tokens_bytes,
                    WindowHits(tail \o mini_chunk, absolute_pos - Len(tail),
                               special_tokens_bytes))

ScanBoundary(file, absolute_pos, tail, special_tokens_bytes) ==
    ScanRead(file, absolute_pos, tail, special_tokens_bytes,
             Slice(file, absolute_pos, absolute_pos + mini_chunk_size))

\* what the set-up of the guesses raises: file_size // desired_num_chunks on
\* a zero count, and chunk_boundaries[-1] = file_size on the empty list that
\* range(desired_num_chunks + 1) is for a negative count
BoundaryError(desired_num_chunks) ==
    IF desired_num_chunks = 0 THEN "ZeroDivisionError"
    ELSE IF desired_num_chunks < 0 THEN "IndexError"
    ELSE "none"

\* chunk_boundaries[i] before the scan
BoundaryGuess(file, desired_num_chunks, i) ==
    IF i = desired_num_chunks THEN Len(file)
    ELSE i * (Len(file) \div desired_num_chunks)

\* chunk_boundaries[i] after the scan
BoundaryMoved(file, desired_num_chunks, special_tokens_bytes, i) ==
    IF i = 0 \/ i = desired_num_chunks \/ special_tokens_bytes = <<>>
    THEN BoundaryGuess(file, desired_num_chunks, i)
    ELSE ScanBoundary(file, BoundaryGuess(file, desired_num_chunks, i), <<>>,
                      special_tokens_bytes)

\* find_chunk_boundaries returning the list as it stands, without
\* sorted(set(...))
find_chunk_boundaries_unsorted(file, desired_num_chunks, special_tokens_bytes) ==
    [k \in 1..(desired_num_chunks + 1) |->
        BoundaryMoved(file, desired_num_chunks, special_tokens_bytes, k - 1)]

find_chunk_boundaries(file, desired_num_chunks, special_tokens_bytes) ==
    SortedSet({BoundaryMoved(file, desired_num_chunks, special_tokens_bytes, i) :
                  i \in 0..desired_num_chunks})

\* ------------------------------------------------------------------------
\* pretokenize_file (cs336_basics/bpe/pretokenization.py)
\* ------------------------------------------------------------------------
Piece(is_special, bs) == [special |-> is_special, bytes |-> bs]

AsNormalPieces(ws) == [k \in 1..Len(ws) |-> Piece(FALSE, ws[k])]

NormalPieces(seg) == AsNormalPieces(emit_normal_segment(seg))

\* special_re = re.compile(b"|".join(...)): the offsets >= pos at which some
\* alternative matches
SpecialReStarts(chunk, pos, special_tokens_bytes) ==
    {p \in pos..(Len(chunk) - 1) :
        \E k \in 1..Len(special_tokens_bytes) :
            MatchesAt(chunk, p, special_tokens_bytes[k])}

\* the alternative an alternation takes at offset p: the first, in the order
\* of declaration, that matches there
SpecialReGroup(chunk, p, special_tokens_bytes) ==
    special_tokens_bytes[
        Min({k \in 1..Len(special_tokens_bytes) :
                MatchesAt(chunk, p, special_tokens_bytes[k])})]

\* the body of gen() for one chunk: the pieces from offset pos on
RECURSIVE ChunkPieces(_, _, _)
ChunkEmit(chunk, pos, special_tokens_bytes, s, w) ==
    NormalPieces(Slice(chunk, pos, s))
    \o <<Piece(TRUE, w)>>
    \o ChunkPieces(chunk, s + Len(w), special_tokens_bytes)

\* ChunkFrom without the split at special tokens: the rest of the chunk is
\* one Normal segment
ChunkFromUnsplit(chunk, pos, special_tokens_bytes, s) ==
    NormalPieces(Slice(chunk, pos, Len(chunk)))

ChunkFrom(chunk, pos, special_tokens_bytes, s) ==
    IF s = -1
    THEN NormalPieces(Slice(chunk, pos, Len(chunk)))
    ELSE ChunkEmit(chunk, pos, special_tokens_bytes, s,
                   SpecialReGroup(chunk, s, special_tokens_bytes))

ChunkPieces(chunk, pos, special_tokens_bytes) ==
    ChunkFrom(chunk, pos, special_tokens_bytes,
              MinOrNone(SpecialReStarts(chunk, pos, special_tokens_bytes)))

\* the pieces gen() yields, one list per chunk [start, end)
ChunksAt(file, special_tokens_bytes, boundaries) ==
    [i \in 1..(Len(boundaries) - 1) |->
        ChunkPieces(Slice(file, boundaries[i], boundaries[i + 1]), 0,
                    special_tokens_bytes)]

FileChunkPieces(file, special_tokens_bytes, num_processes_) ==
    ChunksAt(file, special_tokens_bytes,
             find_chunk_boundaries(file, num_processes_, special_tokens_bytes))

PieceBytes(pieces_) == [k \in 1..Len(pieces_) |-> pieces_[k].bytes]

ChunkBytes(cps) == [i \in 1..Len(cps) |-> PieceBytes(cps[i])]

\* the token lists gen() yields
pretokenize_file(file, special_tokens_bytes, num_processes_) ==
    ChunkBytes(FileChunkPieces(file, special_tokens_bytes, num_processes_))

\* word_freq: a Counter, kept as the list of <<word, count>> in the order of
\* first insertion (the order .items() yields)
KeyIndex(items, w) ==
    IF \E k \in 1..Len(items) : items[k][1] = w
    THEN Min({k \in 1..Len(items) : items[k][1] = w})
    ELSE 0

CounterAddAt(items, w, k) ==
    IF k = 0 THEN Append(items, <<w, 1>>)
    ELSE [items EXCEPT ![k] = <<w, items[k][2] + 1>>]

CounterAdd(items, w) == CounterAddAt(items, w, KeyIndex(items, w))

RECURSIVE CountWords(_, _)
CountWords(items, toks) ==
    IF toks = <<>> THEN items
    ELSE CountWords(CounterAdd(items, Head(toks)), Tail(toks))

\* ------------------------------------------------------------------------
\* str.encode("utf-8") and bytes.decode("utf-8", errors="ignore") on code
\* points below 2048 (one- and two-byte sequences)
\* ------------------------------------------------------------------------
RECURSIVE Utf8Encode(_)
Utf8Encode(str) ==
    IF str = <<>> THEN <<>>
    ELSE LET c == Head(str)
         IN  (IF c < 128 THEN <<c>>
              ELSE <<192 + (c \div 64), 128 + (c % 64)>>)
             \o Utf8Encode(Tail(str))

RECURSIVE Utf8DecodeIgnore(_)
Utf8DecodeIgnore(bs) ==
    IF bs = <<>> THEN <<>>
    ELSE LET c == Head(bs)
         IN  IF c < 128 THEN <<c>> \o Utf8DecodeIgnore(Tail(bs))
             ELSE IF /\ c \in 194..223
                     /\ Len(bs) >= 2
                     /\ bs[2] \in 128..191
                  THEN <<(c - 192) * 64 + (bs[2] - 128)>>
                       \o Utf8DecodeIgnore(Tail(Tail(bs)))
             ELSE Utf8DecodeIgnore(Tail(bs))

EncodeAll(strs) == [k \in 1..Len(strs) |-> Utf8Encode(strs[k])]

\* ------------------------------------------------------------------------
\* BPETokenizer (cs336_basics/bpe/tokenizer.py)
\* ------------------------------------------------------------------------
\* len(d) of a dict
DictLen(d) == Cardinality(DOMAIN d)

\* d[k] = v on a dict
DictSet(d, k, v) == [x \in DOMAIN d \cup {k} |-> IF x = k THEN v ELSE d[x]]

\* d.get(k, 0)
Get0(d, k) == IF k \in DOMAIN d THEN d[k] ELSE 0

\* the loop body of __init__ for one special token
InternBytes(tk, tok_bytes, tid) ==
    [tk EXCEPT !.vocab = DictSet(@, tid, tok_bytes),
               !.byte2id = DictSet(@, tok_bytes, tid)]

InternSpecial(tk, token) == InternBytes(tk, Utf8Encode(token), DictLen(tk.vocab))

RECURSIVE InternSpecials(_, _)
InternSpecials(tk, tokens) ==
    IF tokens = <<>> THEN tk
    ELSE InternSpecials(InternSpecial(tk, Head(tokens)), Tail(tokens))

BPETokenizerInit(special_tokens_) ==
    InternSpecials(
        [vocab |-> [i \in 0..(NumBaseBytes - 1) |-> <<i>>],
         byte2id |-> [b \in {<<i>> : i \in 0..(NumBaseBytes - 1)} |-> b[1]],
         merges |-> <<>>],
        special_tokens_)

\* add_merge: the tokenizer after the call; the new ID is DictLen of the
\* vocab before the call
AddToken(tk, pair, new_bytes, new_id) ==
    [vocab |-> DictSet(tk.vocab, new_id, new_bytes),
     byte2id |-> DictSet(tk.byte2id, new_bytes, new_id),
     merges |-> DictSet(tk.merges, pair, new_id)]

\* add_merge with the two byte strings concatenated in the reverse order
add_merge_reversed(tk, pair) ==
    AddToken(tk, pair, tk.vocab[pair[2]] \o tk.vocab[pair[1]], DictLen(tk.vocab))

add_merge(tk, pair) ==
    AddToken(tk, pair, tk.vocab[pair[1]] \o tk.vocab[pair[2]], DictLen(tk.vocab))

\* ------------------------------------------------------------------------
\* heapq on a list of (negcnt, pair) tuples.  The list is kept in ascending
\* order: heappop takes the least tuple whatever the layout of the array.
\* ------------------------------------------------------------------------
EntryLess(e, f) ==
    \/ e[1] < f[1]
    \/ e[1] = f[1] /\ e[2][1] < f[2][1]
    \/ e[1] = f[1] /\ e[2][1] = f[2][1] /\ e[2][2] < f[2][2]

InsertAfter(h, e, n) == SubSeq(h, 1, n) \o <<e>> \o SubSeq(h, n + 1, Len(h))

heappush(h, e) ==
    InsertAfter(h, e, Cardinality({k \in 1..Len(h) : EntryLess(h[k], e)}))

RECURSIVE heapify(_)
LeastEntry(entries) == CHOOSE x \in entries : \A y \in entries : ~EntryLess(y, x)

HeapFrom(entries, e) == <<e>> \o heapify(entries \ {e})

heapify(entries) ==
    IF entries = {} THEN <<>> ELSE HeapFrom(entries, LeastEntry(entries))

\* ------------------------------------------------------------------------
\* train_bpe (cs336_basics/bpe/train_bpe.py)
\* ------------------------------------------------------------------------
\* special_ids: the IDs byte2id gives the declared special tokens
SpecialIdsOf(tk, special_tokens_) ==
    {tk.byte2id[Utf8Encode(special_tokens_[k])] : k \in 1..Len(special_tokens_)}

\* the symbols of a new pre-token record
InitialByteIds(tk, word_bytes) ==
    IF word_bytes \in DOMAIN tk.byte2id
    THEN <<tk.byte2id[word_bytes]>>
    ELSE [k \in 1..Len(word_bytes) |-> tk.byte2id[<<word_bytes[k]>>]]

\* pair in special_ids on either side
TouchesSpecial(pair, sids) == pair[1] \in sids \/ pair[2] \in sids

\* pair_counts[pair] += freq unless the pair touches a special ID
CountPair(counts, pair, freq, sids) ==
    IF TouchesSpecial(pair, sids) THEN counts
    ELSE DictSet(counts, pair, Get0(counts, pair) + freq)

\* the adjacencies of one record added to pair_counts, from 0-based index i
RECURSIVE CountRecordPairs(_, _, _, _, _)
CountRecordPairs(counts, byte_ids, i, freq, sids) ==
    IF i >= Len(byte_ids) - 1 THEN counts
    ELSE CountRecordPairs(
             CountPair(counts, <<byte_ids[i + 1], byte_ids[i + 2]>>, freq, sids),
             byte_ids, i + 1, freq, sids)

\* type_byteids after the initial loop over word_freq.items()
InitialRecords(tk, wf) ==
    [k \in 1..Len(wf) |-> <<wf[k][1], InitialByteIds(tk, wf[k][1])>>]

\* one pass of the initial loop: a record that is a single special ID is
\* stored and not counted
CountRecord(counts, byte_ids, freq, sids) ==
    IF Len(byte_ids) = 1 /\ byte_ids[1] \in sids THEN counts
    ELSE CountRecordPairs(counts, byte_ids, 0, freq, sids)

\* the initial count taken over the records laid end to end, so that the last
\* symbol of a record and the first of the next make a pair
InitialPairCountsAcross(counts, tk, wf, sids) ==
    CountRecordPairs(counts,
                     Flatten([k \in 1..Len(wf) |-> InitialByteIds(tk, wf[k][1])]),
                     0, 1, sids)

\* pair_counts after the initial loop over word_freq.items()
RECURSIVE InitialPairCounts(_, _, _, _)
InitialPairCounts(counts, tk, wf, sids) ==
    IF wf = <<>> THEN counts
    ELSE InitialPairCounts(
             CountRecord(counts, InitialByteIds(tk, Head(wf)[1]), Head(wf)[2], sids),
             tk, Tail(wf), sids)

\* heap = [(-cnt, pair) ...]; heapq.heapify(heap)
InitialHeap(counts) ==
    heapify({<<0 - counts[p], p>> : p \in DOMAIN counts})

\* pair_counts[pair] = c; heappush(heap, (-c, pair)) on a record r that
\* carries pair_counts and heap
BumpTo(r, pair, c) ==
    [r EXCEPT !.pair_counts = DictSet(@, pair, c),
              !.heap = heappush(@, <<0 - c, pair>>)]

\* pair_counts[pair] += delta; heappush(heap, (-pair_counts[pair], pair))
Bump(r, pair, delta) == BumpTo(r, pair, Get0(r.pair_counts, pair) + delta)

\* the same under an `if`
BumpIf(cond, r, pair, delta) == IF cond THEN Bump(r, pair, delta) ELSE r

\* byte_ids[i : i+2] = [new_id], i 0-based
ReplacePair(byte_ids, i, new_id) ==
    SubSeq(byte_ids, 1, i) \o <<new_id>> \o SubSeq(byte_ids, i + 3, Len(byte_ids))

\* the decrements of left and right at 0-based index i of r.byte_ids
RewriteOld(r, i, freq, id_a, id_b) ==
    BumpIf(i + 2 < Len(r.byte_ids),
           BumpIf(i > 0, r, <<r.byte_ids[i], id_a>>, 0 - freq),
           <<id_b, r.byte_ids[i + 3]>>, 0 - freq)

\* the increments of new_left and new_right after the replacement
RewriteNew(r, i, freq, new_id) ==
    BumpIf(i + 1 < Len(r.byte_ids),
           BumpIf(i > 0, r, <<r.byte_ids[i], new_id>>, freq),
           <<new_id, r.byte_ids[i + 2]>>, freq)

\* byte_ids[i] = new_id: the right element of the pair is left in place
ReplacedLeftOnly(r, i, new_id) == [r EXCEPT !.byte_ids[i + 1] = new_id]

Replaced(r, i, new_id) == [r EXCEPT !.byte_ids = ReplacePair(@, i, new_id)]

\* one occurrence of (id_a, id_b) at 0-based index i rewritten: the record
\* r = [byte_ids, pair_counts, heap] afterwards
RewriteAt(r, i, freq, id_a, id_b, new_id) ==
    RewriteNew(Replaced(RewriteOld(r, i, freq, id_a, id_b), i, new_id),
               i, freq, new_id)

\* the scan of one record run from the last index down to 0: of overlapping
\* occurrences the rightmost is replaced
RECURSIVE RewriteFromRight(_, _, _, _, _, _)
RewriteFromRight(r, i, freq, id_a, id_b, new_id) ==
    IF i < 0 THEN r
    ELSE IF /\ i + 2 <= Len(r.byte_ids)
            /\ r.byte_ids[i + 1] = id_a
            /\ r.byte_ids[i + 2] = id_b
         THEN RewriteFromRight(RewriteAt(r, i, freq, id_a, id_b, new_id),
                               i - 1, freq, id_a, id_b, new_id)
         ELSE RewriteFromRight(r, i - 1, freq, id_a, id_b, new_id)

RewriteRecordFromRight(r, i, freq, id_a, id_b, new_id) ==
    RewriteFromRight(r, Len(r.byte_ids) - 2, freq, id_a, id_b, new_id)

\* the `while i < len(byte_ids) - 1` scan of one record
RECURSIVE RewriteRecord(_, _, _, _, _, _)
RewriteRecord(r, i, freq, id_a, id_b, new_id) ==
    IF i >= Len(r.byte_ids) - 1 THEN r
    ELSE IF r.byte_ids[i + 1] = id_a /\ r.byte_ids[i + 2] = id_b
         THEN RewriteRecord(RewriteAt(r, i, freq, id_a, id_b, new_id),
                            i + 1, freq, id_a, id_b, new_id)
         ELSE RewriteRecord(r, i + 1, freq, id_a, id_b, new_id)

\* word_freq[word_bytes]
FreqOf(wf, word_bytes) == wf[KeyIndex(wf, word_bytes)][2]

\* record k of type_byteids with the index, before its scan
RecordAt(t, k) ==
    [byte_ids |-> t.type_byteids[k][2],
     pair_counts |-> t.pair_counts, heap |-> t.heap]

\* record k of type_byteids and the index, after its scan
RecordPut(t, k, r) ==
    [type_byteids |-> [t.type_byteids EXCEPT ![k] = <<@[1], r.byte_ids>>],
     pair_counts |-> r.pair_counts, heap |-> r.heap]

\* the `for word_bytes, byte_ids in list(type_byteids.items())` loop from
\* record k on: t = [type_byteids, pair_counts, heap] afterwards
RECURSIVE RewriteAll(_, _, _, _, _, _)
RewriteAll(t, k, wf, id_a, id_b, new_id) ==
    IF k > Len(t.type_byteids) THEN t
    ELSE RewriteAll(
             RecordPut(t, k,
                 RewriteRecord(RecordAt(t, k), 0,
                               FreqOf(wf, t.type_byteids[k][1]),
                               id_a, id_b, new_id)),
             k + 1, wf, id_a, id_b, new_id)

\* {w: ids for w, ids in type_byteids.items() if len(ids) > 1}
RECURSIVE DropSingletons(_)
DropSingletons(recs) ==
    IF recs = <<>> THEN <<>>
    ELSE (IF Len(Head(recs)[2]) > 1 THEN <<Head(recs)>> ELSE <<>>)
         \o DropSingletons(Tail(recs))

\* the inner `while heap and heap[0][0] == negcnt` loop
RECURSIVE CollectTied(_, _, _, _)
CollectTied(h, tied, negcnt, counts) ==
    IF h # <<>> /\ Head(h)[1] = negcnt
    THEN CollectTied(Tail(h),
                     IF Get0(counts, Head(h)[2]) = 0 - negcnt
                     THEN Append(tied, Head(h)[2]) ELSE tied,
                     negcnt, counts)
    ELSE [heap |-> h, tied |-> tied]

\* the sort key of tied.sort
PairKey(vocab_, pr) == <<vocab_[pr[1]], vocab_[pr[2]]>>

\* the first position of tied whose key exceeds no other key: the sort
\* without reverse=True
FirstSmallest(vocab_, tied) ==
    Min({i \in 1..Len(tied) :
            \A j \in 1..Len(tied) :
                ~TupleLess(PairKey(vocab_, tied[j]), PairKey(vocab_, tied[i]))})

\* the first position of tied whose key no other key exceeds
FirstGreatest(vocab_, tied) ==
    Min({i \in 1..Len(tied) :
            \A j \in 1..Len(tied) :
                ~TupleLess(PairKey(vocab_, tied[i]), PairKey(vocab_, tied[j]))})

\* tied.sort(key=..., reverse=True): descending by key, equal keys keep
\* their order (the sort is stable)
RECURSIVE SortTied(_, _)
SortFrom(vocab_, tied, k) ==
    <<tied[k]>> \o SortTied(vocab_, RemoveAt(tied, k))

SortTied(vocab_, tied) ==
    IF tied = <<>> THEN <<>>
    ELSE SortFrom(vocab_, tied, FirstGreatest(vocab_, tied))

\* the tied pairs that were not selected are not pushed back
PushBackNone(h, others, counts) == h

\* for p_other in tied[1:]: heappush(heap, (-pair_counts[p_other], p_other))
RECURSIVE PushBack(_, _, _)
PushBack(h, others, counts) ==
    IF others = <<>> THEN h
    ELSE PushBack(heappush(h, <<0 - Get0(counts, Head(others)), Head(others)>>),
                  Tail(others), counts)

\* the state of the merge loop is st = [tk, type_byteids, pair_counts, heap,
\* merges]; t is what the rewrite loop leaves of the records and the index
AdoptMerge(st, pair, t) ==
    [tk |-> add_merge(st.tk, pair),
     type_byteids |-> DropSingletons(t.type_byteids),
     pair_counts |-> t.pair_counts,
     heap |-> t.heap,
     merges |-> Append(st.merges, PairKey(st.tk.vocab, pair))]

\* from `pair = selected` to the end of the iteration; h1 is the heap after
\* the other tied pairs were pushed back
LoopApply(st, wf, sids, pair, h1) ==
    IF TouchesSpecial(pair, sids)
    THEN [st EXCEPT !.heap = h1, !.pair_counts = DictSet(@, pair, 0)]
    ELSE AdoptMerge(st, pair,
             RewriteAll([type_byteids |-> st.type_byteids,
                         pair_counts |-> DictSet(st.pair_counts, pair, 0),
                         heap |-> h1],
                        1, wf, pair[1], pair[2], DictLen(st.tk.vocab)))

\* selected = tied[0] and the push back of tied[1:]
LoopSelected(st, wf, sids, h, tied) ==
    LoopApply(st, wf, sids, tied[1], PushBack(h, Tail(tied), st.pair_counts))

\* tied.sort(...) on what the inner loop collected
LoopTied(st, wf, sids, col) ==
    LoopSelected(st, wf, sids, col.heap, SortTied(st.tk.vocab, col.tied))

\* LoopIter leaving a stale or zero-count entry on the heap instead of
\* popping it
LoopIterNoPop(st, wf, sids) ==
    IF \/ Get0(st.pair_counts, Head(st.heap)[2]) # 0 - Head(st.heap)[1]
       \/ Head(st.heap)[1] = 0
    THEN st
    ELSE LoopTied(st, wf, sids,
                  CollectTied(Tail(st.heap), <<Head(st.heap)[2]>>,
                              Head(st.heap)[1], st.pair_counts))

\* one iteration of `while len(tokenizer.vocab) < vocab_size and heap`
LoopIter(st, wf, sids) ==
    IF \/ Get0(st.pair_counts, Head(st.heap)[2]) # 0 - Head(st.heap)[1]
       \/ Head(st.heap)[1] = 0
    THEN [st EXCEPT !.heap = Tail(@)]
    ELSE LoopTied(st, wf, sids,
                  CollectTied(Tail(st.heap), <<Head(st.heap)[2]>>,
                              Head(st.heap)[1], st.pair_counts))

\* the loop condition with <= for <
LoopRunsInclusive(st, vocab_size_) ==
    DictLen(st.tk.vocab) <= vocab_size_ /\ st.heap # <<>>

\* the loop condition
LoopRuns(st, vocab_size_) == DictLen(st.tk.vocab) < vocab_size_ /\ st.heap # <<>>

\* train_bpe up to the merge loop, given the tokenizer, special_ids, the
\* chunks and word_freq
InitialState(tk, counts, wf) ==
    [tk |-> tk,
     type_byteids |-> InitialRecords(tk, wf),
     pair_counts |-> counts,
     heap |-> InitialHeap(counts),
     merges |-> <<>>]

SetupCounted(tk, sids, chunks_, wf) ==
    [special_ids |-> sids, chunks |-> chunks_, word_freq |-> wf,
     st |-> InitialState(tk, InitialPairCounts(<<>>, tk, wf, sids), wf)]

SetupChunks(tk, sids, chunks_) ==
    SetupCounted(tk, sids, chunks_, CountWords(<<>>, Flatten(chunks_)))

SetupTokenizer(tk, file, special_tokens_, num_processes_) ==
    SetupChunks(tk, SpecialIdsOf(tk, special_tokens_),
                pretokenize_file(file, EncodeAll(special_tokens_), num_processes_))

TrainSetup(file, special_tokens_, num_processes_) ==
    SetupTokenizer(BPETokenizerInit(special_tokens_), file, special_tokens_,
                   num_processes_)

\* the merge loop run to its end
RECURSIVE RunLoop(_, _, _, _)
RunLoop(st, wf, sids, vocab_size_) ==
    IF LoopRuns(st, vocab_size_)
    THEN RunLoop(LoopIter(st, wf, sids), wf, sids, vocab_size_)
    ELSE st

RunFrom(s0, vocab_size_) == RunLoop(s0.st, s0.word_freq, s0.special_ids, vocab_size_)

\* what train_bpe leaves behind on return
TrainedResult(file, vocab_size_, special_tokens_, num_processes_) ==
    RunFrom(TrainSetup(file, special_tokens_, num_processes_), vocab_size_)

\* the merges list train_bpe returns
TrainedMerges(file, vocab_size_, special_tokens_, num_processes_) ==
    TrainedResult(file, vocab_size_, special_tokens_, num_processes_).merges

\* ------------------------------------------------------------------------
\* Tokenizer (cs336_basics/bpe/tokenizer.py)
\* ------------------------------------------------------------------------
\* the first position of strs whose length no other length exceeds
FirstLongest(strs) ==
    Min({i \in 1..Len(strs) : \A j \in 1..Len(strs) : Len(strs[j]) <= Len(strs[i])})

\* sorted(special_tokens, key=len, reverse=True): longest first, equal
\* lengths keep their order
RECURSIVE SortByLenDesc(_)
SortByLenFrom(strs, k) == <<strs[k]>> \o SortByLenDesc(RemoveAt(strs, k))

SortByLenDesc(strs) ==
    IF strs = <<>> THEN <<>> ELSE SortByLenFrom(strs, FirstLongest(strs))

\* {v: k for k, v in vocab.items()}: of the IDs that share a byte string the
\* one inserted last is kept; a vocab is inserted in ascending ID order
InvertVocab(vocab_) ==
    [b \in Range(vocab_) |-> Max({i \in DOMAIN vocab_ : vocab_[i] = b})]

\* the loop over enumerate(merges) from 1-based position k on: merge_ranks
\* at its end, or raised = TRUE for the ValueError
RECURSIVE BuildMergeRanks(_, _, _, _)
RankOf(ranks, b2i, merges_, k, ba, bb) ==
    IF ba \notin DOMAIN b2i \/ bb \notin DOMAIN b2i
    THEN BuildMergeRanks(ranks, b2i, merges_, k + 1)
    ELSE IF (ba \o bb) \notin DOMAIN b2i
    THEN [raised |-> TRUE, merge_ranks |-> ranks]
    ELSE BuildMergeRanks(DictSet(ranks, <<b2i[ba], b2i[bb]>>, k - 1),
                         b2i, merges_, k + 1)

BuildMergeRanks(ranks, b2i, merges_, k) ==
    IF k > Len(merges_) THEN [raised |-> FALSE, merge_ranks |-> ranks]
    ELSE RankOf(ranks, b2i, merges_, k, merges_[k][1], merges_[k][2])

TokenizerFields(vocab_, merges_, special_tokens_, b2i, built) ==
    [vocab |-> vocab_,
     merges |-> merges_,
     special_tokens |-> SortByLenDesc(special_tokens_),
     byte2id |-> b2i,
     merge_ranks |-> built.merge_ranks,
     raised |-> built.raised]

TokenizerRanks(vocab_, merges_, special_tokens_, b2i) ==
    TokenizerFields(vocab_, merges_, special_tokens_, b2i,
                    BuildMergeRanks(<<>>, b2i, merges_, 1))

\* Tokenizer.__init__: the fields of the object; raised = TRUE when the
\* constructor raised ValueError
TokenizerInit(vocab_, merges_, special_tokens_) ==
    TokenizerRanks(vocab_, merges_, special_tokens_, InvertVocab(vocab_))

\* _yield_normal_span: the Normal pieces of b[start:end], matched against
\* the whole buffer b and cut at end.  The pieces carry bytes: a piece of an
\* ASCII text is decoded and encoded again without change.
RECURSIVE YieldNormalSpan(_, _, _)
\* YieldMatch without the cut at end: a match that runs past end is yielded
\* whole
YieldMatchUncut(b, j, end, n) ==
    IF n = 0
    THEN <<Piece(FALSE, Slice(b, j, j + 1))>> \o YieldNormalSpan(b, j + 1, end)
    ELSE <<Piece(FALSE, Slice(b, j, j + n))>> \o YieldNormalSpan(b, j + n, end)

YieldMatch(b, j, end, n) ==
    IF n = 0
    THEN <<Piece(FALSE, Slice(b, j, j + 1))>> \o YieldNormalSpan(b, j + 1, end)
    ELSE IF j + n > end
    THEN <<Piece(FALSE, Slice(b, j, end))>>
    ELSE <<Piece(FALSE, Slice(b, j, j + n))>> \o YieldNormalSpan(b, j + n, end)

YieldNormalSpan(b, j, end) ==
    IF j >= end THEN <<>> ELSE YieldMatch(b, j, end, PatMatchLen(b, j))

\* the body of the `for tok in special_bytes_list` loop: best (pos, tok)
\* after tok was looked for, pos = -1 for None
BetterSpecial(best, pos, tok) ==
    IF /\ pos # -1
       /\ \/ best.pos = -1
          \/ pos < best.pos
          \/ (pos = best.pos /\ Len(tok) > Len(best.tok))
    THEN [pos |-> pos, tok |-> tok]
    ELSE best

\* the `for tok in special_bytes_list` loop from list position k on
RECURSIVE BestSpecial(_, _, _, _, _)
BestSpecial(btext, i, toks, k, best) ==
    IF k > Len(toks) THEN best
    ELSE BestSpecial(btext, i, toks, k + 1,
                     BetterSpecial(best, Find(btext, toks[k], i), toks[k]))

\* Tokenizer.pretokenize from offset i on
RECURSIVE TokPieces(_, _, _)
TokSplit(btext, i, special_bytes_list, best) ==
    IF best.pos = -1 THEN YieldNormalSpan(btext, i, Len(btext))
    ELSE (IF best.pos > i THEN YieldNormalSpan(btext, i, best.pos) ELSE <<>>)
         \o <<Piece(TRUE, best.tok)>>
         \o TokPieces(btext, best.pos + Len(best.tok), special_bytes_list)

TokPieces(btext, i, special_bytes_list) ==
    IF i >= Len(btext) THEN <<>>
    ELSE TokSplit(btext, i, special_bytes_list,
                  BestSpecial(btext, i, special_bytes_list, 1,
                              [pos |-> -1, tok |-> <<>>]))

pretokenize(tk, text_) ==
    TokPieces(Utf8Encode(text_), 0, EncodeAll(tk.special_tokens))

\* BetterPair with `rank <= best_rank`: of the pairs of least rank the
\* rightmost is kept
BetterPairRightmost(tk, best, i, pair) ==
    IF /\ pair \in DOMAIN tk.merge_ranks
       /\ (best.idx = -1 \/ tk.merge_ranks[pair] <= best.rank)
    THEN [idx |-> i, rank |-> tk.merge_ranks[pair]]
    ELSE best

\* the body of the `for i in range(len(seq) - 1)` scan: best (idx, rank)
\* after the pair at 0-based index i was looked at, idx = -1 for None
BetterPair(tk, best, i, pair) ==
    IF /\ pair \in DOMAIN tk.merge_ranks
       /\ (best.idx = -1 \/ tk.merge_ranks[pair] < best.rank)
    THEN [idx |-> i, rank |-> tk.merge_ranks[pair]]
    ELSE best

\* the `for i in range(len(seq) - 1)` scan from 0-based index i on
RECURSIVE ScanBestPair(_, _, _, _)
ScanBestPair(tk, seq, i, best) ==
    IF i >= Len(seq) - 1 THEN best
    ELSE ScanBestPair(tk, seq, i + 1,
                      BetterPair(tk, best, i, <<seq[i + 1], seq[i + 2]>>))

\* seq[best_idx : best_idx + 2] = [merged_id]
MergeBest(tk, seq, best_idx) ==
    ReplacePair(seq, best_idx,
                tk.byte2id[tk.vocab[seq[best_idx + 1]] \o tk.vocab[seq[best_idx + 2]]])

\* the sequences the `while True` loop of _encode_bytes goes through, the
\* initial one first
RECURSIVE EncodeSteps(_, _)
EncodeStep(tk, seq, best) ==
    IF best.idx = -1 THEN <<seq>>
    ELSE <<seq>> \o EncodeSteps(tk, MergeBest(tk, seq, best.idx))

EncodeSteps(tk, seq) ==
    EncodeStep(tk, seq, ScanBestPair(tk, seq, 0, [idx |-> -1, rank |-> -1]))

\* the initial seq of _encode_bytes
InitialSeq(tk, data) ==
    IF data \in DOMAIN tk.byte2id THEN <<tk.byte2id[data]>>
    ELSE [k \in 1..Len(data) |-> tk.byte2id[<<data[k]>>]]

Last(steps) == steps[Len(steps)]

encode_bytes(tk, data) == Last(EncodeSteps(tk, InitialSeq(tk, data)))

\* a piece of the text cannot be looked up in byte2id
PieceKeyError(tk, piece) ==
    IF piece.special THEN piece.bytes \notin DOMAIN tk.byte2id
    ELSE /\ piece.bytes \notin DOMAIN tk.byte2id
         /\ \E k \in 1..Len(piece.bytes) :
                <<piece.bytes[k]>> \notin DOMAIN tk.byte2id

\* the IDs encode appends for one piece
EncodePiece(tk, piece) ==
    IF piece.special THEN <<tk.byte2id[piece.bytes]>>
    ELSE encode_bytes(tk, piece.bytes)

RECURSIVE EncodePieces(_, _)
EncodePieces(tk, pieces_) ==
    IF pieces_ = <<>> THEN <<>>
    ELSE EncodePiece(tk, Head(pieces_)) \o EncodePieces(tk, Tail(pieces_))

\* the loop of encode over the pieces: output_ids, or raised = TRUE for a
\* KeyError
EncodeOf(tk, pieces_) ==
    IF \E k \in 1..Len(pieces_) : PieceKeyError(tk, pieces_[k])
    THEN [raised |-> TRUE, ids |-> <<>>]
    ELSE [raised |-> FALSE, ids |-> EncodePieces(tk, pieces_)]

\* Tokenizer.encode
encode(tk, text_) == EncodeOf(tk, pretokenize(tk, text_))

RECURSIVE JoinVocab(_, _)
JoinVocab(vocab_, ids_) ==
    IF ids_ = <<>> THEN <<>>
    ELSE vocab_[Head(ids_)] \o JoinVocab(vocab_, Tail(ids_))

\* Tokenizer.decode
decode(tk, ids_) == Utf8DecodeIgnore(JoinVocab(tk.vocab, ids_))

\* ------------------------------------------------------------------------
\* train_bpe of cs336_basics/bpe/train_bpe2.py
\* ------------------------------------------------------------------------
\* the seq of one doc: a token in byte2id is its ID, any other is extended
\* byte by byte
RECURSIVE DocSeq(_, _)
DocSeq(b2i, doc) ==
    IF doc = <<>> THEN <<>>
    ELSE (IF Head(doc) \in DOMAIN b2i THEN <<b2i[Head(doc)]>> ELSE Head(doc))
         \o DocSeq(b2i, Tail(doc))

\* pair_cnt over zip(seq, seq[1:]) of one doc
RECURSIVE DocPairCnt(_, _, _)
DocPairCnt(cnt, seq, i) ==
    IF i >= Len(seq) - 1 THEN cnt
    ELSE DocPairCnt(DictSet(cnt, <<seq[i + 1], seq[i + 2]>>,
                            Get0(cnt, <<seq[i + 1], seq[i + 2]>>) + 1),
                    seq, i + 1)

RECURSIVE DocsPairCnt(_, _)
DocsPairCnt(cnt, docs) ==
    IF docs = <<>> THEN cnt
    ELSE DocsPairCnt(DocPairCnt(cnt, Head(docs), 0), Tail(docs))

\* pair_pos over enumerate(zip(seq, seq[1:])) of doc d: the 0-based
\* positions (d, i) of each pair
RECURSIVE DocPairPos(_, _, _, _)
DocPairPos(pos, seq, d, i) ==
    IF i >= Len(seq) - 1 THEN pos
    ELSE DocPairPos(DictSet(pos, <<seq[i + 1], seq[i + 2]>>,
                            (IF <<seq[i + 1], seq[i + 2]>> \in DOMAIN pos
                             THEN pos[<<seq[i + 1], seq[i + 2]>>] ELSE {})
                            \cup {<<d, i>>}),
                    seq, d, i + 1)

RECURSIVE DocsPairPos(_, _, _)
DocsPairPos(pos, docs, d) ==
    IF d >= Len(docs) THEN pos
    ELSE DocsPairPos(DocPairPos(pos, docs[d + 1], d, 0), docs, d + 1)

Keys(wf) == [k \in 1..Len(wf) |-> wf[k][1]]

\* the state train_bpe of train_bpe2.py ends in when it raises before the
\* index is built
Bpe2Raised(error, vocab_) ==
    [outcome |-> error, vocab |-> vocab_, docs |-> <<>>,
     pair_cnt |-> <<>>, pair_pos |-> <<>>, merges |-> <<>>]

\* the merge loop.  With an empty index the heap is empty and the function
\* returns.  Otherwise the first entry popped carries the count of its
\* pair, which is at least 1, and tok.add_merge((a_bytes, b_bytes)) is
\* called with a pair of byte strings: add_merge looks the byte strings up
\* in vocab, whose keys are IDs, and raises KeyError before any position is
\* consumed.
Bpe2Counted(vocab_, docs, cnt) ==
    [outcome |-> IF cnt = <<>> THEN "returned" ELSE "KeyError",
     vocab |-> vocab_, docs |-> docs, pair_cnt |-> cnt,
     pair_pos |-> DocsPairPos(<<>>, docs, 0), merges |-> <<>>]

Bpe2Docs(vocab_, docs) == Bpe2Counted(vocab_, docs, DocsPairCnt(<<>>, docs))

Bpe2Seq(vocab_, seq2) == Bpe2Docs(vocab_, IF seq2 = <<>> THEN <<>> ELSE <<seq2>>)

\* `for doc in pretokenize_file(...)` iterates the pair (gen(), word_freq)
\* that pretokenize_file returns.  The first doc is the generator: each item
\* it yields is the token list of a chunk, and `tok_bytes in byte2id` on a
\* list raises TypeError.  The second doc is the Counter, whose keys are the
\* pre-tokens counted so far.
Bpe2Chunks(vocab_, chunks_) ==
    IF chunks_ # <<>>
    THEN Bpe2Raised("TypeError", vocab_)
    ELSE Bpe2Seq(vocab_,
                 DocSeq(InvertVocab(vocab_),
                        Keys(CountWords(<<>>, Flatten(chunks_)))))

\* the first next() on the generator runs find_chunk_boundaries, which
\* raises on a chunk count below 1
train_bpe2_setup(file, special_tokens_, num_processes_) ==
    IF BoundaryError(num_processes_) # "none"
    THEN Bpe2Raised(BoundaryError(num_processes_),
                    BPETokenizerInit(special_tokens_).vocab)
    ELSE Bpe2Chunks(BPETokenizerInit(special_tokens_).vocab,
                    pretokenize_file(file, EncodeAll(special_tokens_),
                                     num_processes_))


\* ------------------------------------------------------------------------
\* save_vocab_json, save_merges_txt (cs336_basics/bpe/try_bpe.py) and
\* from_files (cs336_basics/bpe/tokenizer.py).  A str is a sequence of code
\* points; json.dump and json.load keep the mapping from str(idx) to the
\* string, and the text files are written and read as UTF-8.
\* ------------------------------------------------------------------------
\* the hexadecimal digit of n in 0..15, lower case
HexDigit(n) == IF n < 10 THEN 48 + n ELSE 87 + n

\* bytes.decode('utf-8', errors='backslashreplace'): a byte that is part of
\* no valid sequence becomes the four characters \xNN
RECURSIVE DecodeBackslashReplace(_)
DecodeBackslashReplace(bs) ==
    IF bs = <<>> THEN <<>>
    ELSE IF Head(bs) < 128
    THEN <<Head(bs)>> \o DecodeBackslashReplace(Tail(bs))
    ELSE IF Head(bs) \in 194..223 /\ Len(bs) >= 2 /\ bs[2] \in 128..191
    THEN <<(Head(bs) - 192) * 64 + (bs[2] - 128)>>
         \o DecodeBackslashReplace(Tail(Tail(bs)))
    ELSE <<92, 120, HexDigit(Head(bs) \div 16), HexDigit(Head(bs) % 16)>>
         \o DecodeBackslashReplace(Tail(bs))

\* the object save_vocab_json dumps: str(idx) -> decoded token
save_vocab_json(vocab_) ==
    [i \in DOMAIN vocab_ |-> DecodeBackslashReplace(vocab_[i])]

\* the text save_merges_txt writes: f"{a_str} {b_str}\n" for each merge
RECURSIVE save_merges_txt(_)
save_merges_txt(merges_) ==
    IF merges_ = <<>> THEN <<>>
    ELSE DecodeBackslashReplace(Head(merges_)[1]) \o <<SP>>
         \o DecodeBackslashReplace(Head(merges_)[2]) \o <<10>>
         \o save_merges_txt(Tail(merges_))

\* `for line in f` on a text file: the text cut after each '\n', '\r' or
\* '\r\n'; line holds the characters of the current line so far
RECURSIVE ReadLines(_, _)
ReadLines(txt, line) ==
    IF txt = <<>> THEN (IF line = <<>> THEN <<>> ELSE <<line>>)
    ELSE IF Head(txt) = 13 /\ Len(txt) >= 2 /\ txt[2] = 10
    THEN <<line>> \o ReadLines(Tail(Tail(txt)), <<>>)
    ELSE IF Head(txt) \in {10, 13}
    THEN <<line>> \o ReadLines(Tail(txt), <<>>)
    ELSE ReadLines(Tail(txt), Append(line, Head(txt)))

\* the characters str.strip and str.split take for whitespace, below 2048
StrSpace == (9..13) \cup (28..32) \cup {133, 160}

\* line.strip().split(): the maximal runs of characters that are no
\* whitespace; field holds the characters of the current run so far
RECURSIVE SplitFields(_, _)
SplitFields(line, field) ==
    IF line = <<>> THEN (IF field = <<>> THEN <<>> ELSE <<field>>)
    ELSE IF Head(line) \in StrSpace
    THEN (IF field = <<>> THEN <<>> ELSE <<field>>)
         \o SplitFields(Tail(line), <<>>)
    ELSE SplitFields(Tail(line), Append(field, Head(line)))

\* d[key] = v on a dict kept as the list of <<key, value>> in the order of
\* first insertion; k is the position of key, 0 if it is new
ItemsPut(items, key, v, k) ==
    IF k = 0 THEN Append(items, <<key, v>>)
    ELSE [items EXCEPT ![k] = <<key, v>>]

\* the `for a, b in merges` loop of from_files on the tokenizer
\* t = [outcome, vocab, byte2id, merges]: unpacking a tuple that has not two
\* elements raises ValueError, a token that is no key of byte2id raises
\* KeyError; byte2id is not updated by the loop
RECURSIVE LoadMerges(_, _)
LoadPair(t, a_id, b_id, new_bytes, rest) ==
    LoadMerges([t EXCEPT !.merges = ItemsPut(@, <<a_id, b_id>>, DictLen(t.vocab),
                                             KeyIndex(@, <<a_id, b_id>>)),
                         !.vocab = DictSet(@, DictLen(@), new_bytes)],
               rest)

LoadMerge(t, a, b, rest) ==
    IF a \notin DOMAIN t.byte2id \/ b \notin DOMAIN t.byte2id
    THEN [t EXCEPT !.outcome = "KeyError"]
    ELSE LoadPair(t, t.byte2id[a], t.byte2id[b], a \o b, rest)

LoadFields(t, fields, rest) ==
    IF Len(fields) # 2
    THEN [t EXCEPT !.outcome = "ValueError"]
    ELSE LoadMerge(t, Utf8Encode(fields[1]), Utf8Encode(fields[2]), rest)

LoadMerges(t, lines) ==
    IF lines = <<>> THEN t
    ELSE LoadFields(t, SplitFields(Head(lines), <<>>), Tail(lines))

\* tokenizer.vocab = {int(k): v.encode('utf-8') ...}
LoadVocab(vocab_json) ==
    [i \in DOMAIN vocab_json |-> Utf8Encode(vocab_json[i])]

\* from_files(cls, vocab_filepath, merges_filepath, special_tokens) from the
\* assignment of tokenizer.vocab on, with cls = BPETokenizer, the class that
\* cls(special_tokens) constructs; the vocab and byte2id of the new object
\* are replaced by the loaded ones
from_files(vocab_, merges_txt) ==
    LoadMerges([outcome |-> "returned", vocab |-> vocab_,
                byte2id |-> InvertVocab(vocab_), merges |-> <<>>],
               ReadLines(merges_txt, <<>>))
\* ------------------------------------------------------------------------
\* DoublyLinkedList (cs336_basics/bpe/data_structures.py)
\* ------------------------------------------------------------------------
\* A list is L = [node, head, tail, length]: node is the sequence of the
\* Node objects created so far, in the order of creation, each with its
\* value, prev and next; a reference to a node is its position in node, and
\* None is 0.
None == 0

Node(value) == [value |-> value, prev |-> None, next |-> None]

\* DoublyLinkedList.__init__
DoublyLinkedListInit == [node |-> <<>>, head |-> None, tail |-> None, length |-> 0]

\* the branch of append on an empty list; n is the new node
AppendFirst(L, n, value) ==
    [L EXCEPT !.node = Append(@, Node(value)),
              !.head = n,
              !.tail = n,
              !.length = @ + 1]

\* the branch of append on a list with a tail
AppendLast(L, n, value) ==
    [L EXCEPT !.node = Append([@ EXCEPT ![L.tail].next = n],
                              [Node(value) EXCEPT !.prev = L.tail]),
              !.tail = n,
              !.length = @ + 1]

\* DoublyLinkedList.append
append(L, value) ==
    IF L.head = None THEN AppendFirst(L, Len(L.node) + 1, value)
    ELSE AppendLast(L, Len(L.node) + 1, value)

\* the first `if` of remove: the predecessor, or head, is set to node.next
UnlinkPrev(L, nd) ==
    IF L.node[nd].prev # None
    THEN [L EXCEPT !.node[L.node[nd].prev].next = L.node[nd].next]
    ELSE [L EXCEPT !.head = L.node[nd].next]

\* the second `if` of remove, on the list L1 that the first left: the
\* successor, or tail, is set to node.prev
UnlinkNext(L1, nd) ==
    IF L1.node[nd].next # None
    THEN [L1 EXCEPT !.node[L1.node[nd].next].prev = L1.node[nd].prev]
    ELSE [L1 EXCEPT !.tail = L1.node[nd].prev]

\* node.prev = node.next = None; self.length -= 1
Detach(L2, nd) ==
    [L2 EXCEPT !.node[nd].prev = None,
               !.node[nd].next = None,
               !.length = @ - 1]

\* DoublyLinkedList.remove
remove(L, nd) == Detach(UnlinkNext(UnlinkPrev(L, nd), nd), nd)

\* insert_after up to `new_node.next = nxt`; n is the new node
LinkAfter(L, nd, n, value) ==
    [L EXCEPT !.node = Append([@ EXCEPT ![nd].next = n],
                              [Node(value) EXCEPT !.prev = nd,
                                                  !.next = L.node[nd].next]),
              !.length = @ + 1]

\* insert_after with the `else` branch left out: tail is not moved
insert_after_keeping_tail(L, nd, value) ==
    IF L.node[nd].next # None
    THEN [LinkAfter(L, nd, Len(L.node) + 1, value)
             EXCEPT !.node[L.node[nd].next].prev = Len(L.node) + 1]
    ELSE LinkAfter(L, nd, Len(L.node) + 1, value)

\* DoublyLinkedList.insert_after
insert_after(L, nd, value) ==
    IF L.node[nd].next # None
    THEN [LinkAfter(L, nd, Len(L.node) + 1, value)
             EXCEPT !.node[L.node[nd].next].prev = Len(L.node) + 1]
    ELSE [LinkAfter(L, nd, Len(L.node) + 1, value)
             EXCEPT !.tail = Len(L.node) + 1]

\* __iter__: the nodes from current on by next.  The walk stops after fuel
\* nodes, so that it is defined on a list with a cycle.
RECURSIVE IterFrom(_, _, _)
IterFrom(L, current, fuel) ==
    IF current = None \/ fuel = 0 THEN <<>>
    ELSE <<current>> \o IterFrom(L, L.node[current].next, fuel - 1)

\* __reversed__: the nodes from current on by prev
RECURSIVE ReversedFrom(_, _, _)
ReversedFrom(L, current, fuel) ==
    IF current = None \/ fuel = 0 THEN <<>>
    ELSE <<current>> \o ReversedFrom(L, L.node[current].prev, fuel - 1)

\* ------------------------------------------------------------------------
\* Inputs
\* ------------------------------------------------------------------------
\* the bytes ' ', 'a', 'b'
Alphabet == {SP, 97, 98}

RECURSIVE StringsUpTo(_, _)
Extend(shorter, A) == shorter \cup {Append(w, c) : w \in shorter, c \in A}

StringsUpTo(A, n) ==
    IF n = 0 THEN {<<>>} ELSE Extend(StringsUpTo(A, n - 1), A)

\* longer corpora: 'bbb a', 'bbb b b', 'bbb b b b', 'abab ab', 'aaaa',
\* ' aa aa', "a's b"
ExtraCorpora ==
    {<<98, 98, 98, 32, 97>>,
     <<98, 98, 98, 32, 98, 32, 98>>,
     <<98, 98, 98, 32, 98, 32, 98, 32, 98>>,
     <<97, 98, 97, 98, 32, 97, 98>>,
     <<97, 97, 97, 97>>,
     <<32, 97, 97, 32, 97, 97>>,
     <<97, APOS, 115, 32, 98>>}

Corpora == StringsUpTo(Alphabet, MaxCorpusLen) \cup ExtraCorpora

\* the single line 'low low low low low lower lower newest newest newest
\* newest newest newest widest widest widest'
LowCorpus ==
    <<
      108, 111, 119, 32, 108, 111, 119, 32, 108, 111, 119, 32, 108, 111,
      119, 32, 108, 111, 119, 32, 108, 111, 119, 101, 114, 32, 108, 111,
      119, 101, 114, 32, 110, 101, 119, 101, 115, 116, 32, 110, 101, 119,
      101, 115, 116, 32, 110, 101, 119, 101, 115, 116, 32, 110, 101, 119,
      101, 115, 116, 32, 110, 101, 119, 101, 115, 116, 32, 110, 101, 119,
      101, 115, 116, 32, 119, 105, 100, 101, 115, 116, 32, 119, 105, 100,
      101, 115, 116, 32, 119, 105, 100, 101, 115, 116>>

\* a file of two reads' worth of 'b' followed by 'aa': scanned from the
\* middle guess, the first read ends between the two 'a'
StraddleFile ==
    [i \in 1..(2 * mini_chunk_size + 2) |->
        IF i > 2 * mini_chunk_size THEN 97 ELSE 98]

\* the files handed to find_chunk_boundaries
ChunkFiles == Corpora \cup {StraddleFile}

\* num_processes: below 1, and 1..MaxProcesses
NumProcesses == (-1)..MaxProcesses

\* special-token lists: none, 'a', 'ab', ['a', 'ab'], 'aa'
SpecialLists ==
    {<<>>, <<(<<97>>)>>, <<(<<97, 98>>)>>, <<(<<97>>), <<97, 98>>>>,
     <<(<<97, 97>>)>>}

\* vocab_size: one below the initial vocabulary, one above it, and
\* 256 + MaxNewTokens
VocabSizes(specials) ==
    {NumBaseBytes + Len(specials) - 1, NumBaseBytes + Len(specials) + 1,
     NumBaseBytes + MaxNewTokens}

\* texts handed to Tokenizer.encode
Texts == StringsUpTo(Alphabet, MaxTextLen)

\* corpora the tokenizers under test are trained on: 'ab', 'aaa', 'abb ab'
\* and the longer corpora
TokTrainCorpora ==
    {<<97, 98>>, <<97, 97, 97>>, <<97, 98, 98, 32, 97, 98>>} \cup ExtraCorpora

\* vocabularies and merges lists written by hand: the base bytes and the
\* tokens 'ab', 'abb', 'bb' in this order from ID 256 on
BaseVocab == [i \in 0..(NumBaseBytes - 1) |-> <<i>>]

RECURSIVE ExtendVocab(_, _)
ExtendVocab(vocab_, toks) ==
    IF toks = <<>> THEN vocab_
    ELSE ExtendVocab(DictSet(vocab_, DictLen(vocab_), Head(toks)), Tail(toks))

HandTokens ==
    {<<>>, <<(<<97, 98>>)>>, <<(<<97, 98>>), <<97, 98, 98>>>>,
     <<(<<98, 98>>), <<97, 98>>, <<97, 98, 98>>>>}

HandMerges ==
    {<<>>,
     <<(<< <<97>>, <<98>> >>)>>,
     << << <<97>>, <<98>> >>, << <<97, 98>>, <<98>> >> >>,
     << << <<98>>, <<98>> >>, << <<97>>, <<98>> >> >>,
     << << <<98>>, <<98>> >>, << <<97>>, <<98, 98>> >>, << <<97>>, <<98>> >> >>}

\* the arguments of Tokenizer(vocab, merges, special_tokens): what train_bpe
\* returned, with the special tokens it was trained with or with none
ArgsOf(st, special_tokens_) ==
    [vocab |-> st.tk.vocab, merges |-> st.merges,
     special_tokens |-> special_tokens_, trained |-> TRUE]

TrainedArgs ==
    {ArgsOf(TrainedResult(x[1], NumBaseBytes + MaxNewTokens, x[2], 1), x[3]) :
        x \in {y \in TokTrainCorpora \X SpecialLists \X SpecialLists :
                  y[3] = y[2] \/ y[3] = <<>>}}

\* or a vocabulary and a merges list written by hand, with no special token
\* or with the special token 'ab'
HandArgs ==
    {[vocab |-> ExtendVocab(BaseVocab, x[1]), merges |-> x[2],
      special_tokens |-> x[3], trained |-> FALSE] :
        x \in HandTokens \X HandMerges \X {<<>>, <<(<<97, 98>>)>>}}

\* vocabularies of valid UTF-8 tokens only, with their merges lists:
\* 'a','b'; 'a','b','ab'; ' ','l',' l'; ' ','l','o',' l',' lo'
FileArgs ==
    {[vocab |-> x[1], merges |-> x[2], special_tokens |-> <<>>,
      trained |-> FALSE] :
        x \in {<<[i \in 0..1 |-> <<97 + i>>], <<>>>>,
               <<ExtendVocab([i \in 0..1 |-> <<97 + i>>], <<(<<97, 98>>)>>),
                 <<(<< <<97>>, <<98>> >>)>>>>,
               <<ExtendVocab(<<>>, << <<SP>>, <<108>>, <<SP, 108>> >>),
                 <<(<< <<SP>>, <<108>> >>)>>>>,
               <<ExtendVocab(<<>>, << <<SP>>, <<108>>, <<111>>, <<SP, 108>>,
                                      <<SP, 108, 111>> >>),
                 << << <<SP>>, <<108>> >>, << <<SP, 108>>, <<111>> >> >>>>}}

\* ------------------------------------------------------------------------
\* State
\* ------------------------------------------------------------------------
VARIABLES
    \* one call of train_bpe (train_bpe.py)
    pc,              \* "start", "loop" (at the head of the merge loop), "done",
                     \* or the exception raised: "ZeroDivisionError",
                     \* "IndexError"
    corpus,          \* the bytes of the file at input_path
    special_tokens,  \* the declared special tokens, as strings
    vocab_size,
    num_processes,
    tokenizer,       \* the BPETokenizer: vocab, byte2id, merges
    special_ids,
    chunk_pieces,    \* per chunk, what gen() appended to toks and whether
                     \* as a special token
    chunks,          \* the token lists gen() yielded
    word_freq,
    type_byteids,
    pair_counts,
    heap,
    merges,
    \* one call of train_bpe (train_bpe2.py) on the same arguments
    pc2,             \* "start", "returned" or the exception raised
    bpe2,            \* tok.vocab, docs, pair_cnt, pair_pos, merges
    \* one Tokenizer (tokenizer.py)
    tk_pc,           \* "new", "ready", "ValueError", "encoded", "KeyError",
                     \* "decoded"
    tk_args,         \* the arguments of the constructor
    tk,              \* the Tokenizer object
    text,            \* the argument of encode
    pieces,          \* what pretokenize yielded for it
    piece_ids,       \* what encode added to output_ids for each piece
    ids,             \* the result of encode
    decoded,         \* the result of decode(ids)
    \* the vocab and merges of tk_args saved and loaded again
    ff_pc,           \* "start", "saved", "returned", "ValueError", "KeyError"
    files,           \* what save_vocab_json and save_merges_txt wrote
    loaded,          \* the tokenizer from_files built
    \* one call of find_chunk_boundaries (bpe/pretokenization.py)
    cb_pc,           \* "start", "returned", "ZeroDivisionError", "IndexError"
    chunk_boundaries, \* the list returned
    \* one DoublyLinkedList (data_structures.py)
    dll              \* the nodes created so far, head, tail and length

train_vars == <<pc, tokenizer, special_ids, chunk_pieces, chunks, word_freq,
                type_byteids, pair_counts, heap, merges>>

inputs == <<corpus, special_tokens, vocab_size, num_processes>>

bpe2_vars == <<pc2, bpe2>>

tok_vars == <<tk_pc, tk_args, tk, text, pieces, piece_ids, ids, decoded>>

chunk_vars == <<cb_pc, chunk_boundaries>>

file_vars == <<ff_pc, files, loaded>>

list_vars == <<dll>>

vars == <<inputs, train_vars, bpe2_vars, tok_vars, chunk_vars, file_vars,
          list_vars>>

NoList == dll = DoublyLinkedListInit

NoTraining ==
    /\ pc = "start"
    /\ tokenizer = [vocab |-> <<>>, byte2id |-> <<>>, merges |-> <<>>]
    /\ special_ids = {}
    /\ chunk_pieces = <<>>
    /\ chunks = <<>>
    /\ word_freq = <<>>
    /\ type_byteids = <<>>
    /\ pair_counts = <<>>
    /\ heap = <<>>
    /\ merges = <<>>
    /\ pc2 = "start"
    /\ bpe2 = <<>>

NoTokenizer ==
    /\ tk_pc = "new"
    /\ tk = <<>>
    /\ text = <<>>
    /\ pieces = <<>>
    /\ piece_ids = <<>>
    /\ ids = <<>>
    /\ decoded = <<>>

NoChunking ==
    /\ cb_pc = "start"
    /\ chunk_boundaries = <<>>

NoFiles ==
    /\ ff_pc = "start"
    /\ files = <<>>
    /\ loaded = <<>>

\* ------------------------------------------------------------------------
\* Training
\* ------------------------------------------------------------------------
\* the arguments of train_bpe: the small corpora with every special-token
\* list, vocab_size and num_processes, or LowCorpus with no special token,
\* vocab_size = 260 and one process
TrainInit ==
    /\ \/ /\ corpus \in Corpora
          /\ special_tokens \in SpecialLists
          /\ vocab_size \in VocabSizes(special_tokens)
          /\ num_processes \in NumProcesses
       \/ /\ corpus = LowCorpus
          /\ special_tokens = <<>>
          /\ vocab_size = NumBaseBytes + 4
          /\ num_processes = 1
    /\ NoTraining
    /\ NoTokenizer
    /\ NoChunking
    /\ NoFiles
    /\ NoList
    /\ tk_args = <<>>

LoopState ==
    [tk |-> tokenizer, type_byteids |-> type_byteids,
     pair_counts |-> pair_counts, heap |-> heap, merges |-> merges]

\* train_bpe from its entry to the head of the merge loop, or to the
\* exception that `for _ in chunks` meets in find_chunk_boundaries
Setup ==
    /\ pc = "start"
    /\ IF BoundaryError(num_processes) # "none"
       THEN /\ tokenizer' = BPETokenizerInit(special_tokens)
            /\ special_ids' = SpecialIdsOf(tokenizer', special_tokens)
            /\ pc' = BoundaryError(num_processes)
            /\ UNCHANGED <<chunk_pieces, chunks, word_freq, type_byteids,
                           pair_counts, heap, merges>>
       ELSE /\ \E s0 \in {TrainSetup(corpus, special_tokens, num_processes)} :
                /\ tokenizer' = s0.st.tk
                /\ special_ids' = s0.special_ids
                /\ chunks' = s0.chunks
                /\ word_freq' = s0.word_freq
                /\ type_byteids' = s0.st.type_byteids
                /\ pair_counts' = s0.st.pair_counts
                /\ heap' = s0.st.heap
                /\ merges' = s0.st.merges
            /\ chunk_pieces' = FileChunkPieces(corpus, EncodeAll(special_tokens),
                                               num_processes)
            /\ pc' = "loop"
    /\ UNCHANGED <<inputs, bpe2_vars, tok_vars, chunk_vars, file_vars,
                   list_vars>>

\* one iteration of the merge loop
MergeLoopIter ==
    /\ pc = "loop"
    /\ LoopRuns(LoopState, vocab_size)
    /\ \E st1 \in {LoopIter(LoopState, word_freq, special_ids)} :
        /\ tokenizer' = st1.tk
        /\ type_byteids' = st1.type_byteids
        /\ pair_counts' = st1.pair_counts
        /\ heap' = st1.heap
        /\ merges' = st1.merges
    /\ UNCHANGED <<pc, inputs, special_ids, chunk_pieces, chunks, word_freq,
                   bpe2_vars, tok_vars, chunk_vars, file_vars,
                   list_vars>>

\* the loop condition fails: train_bpe returns tokenizer.vocab, merges
Return ==
    /\ pc = "loop"
    /\ ~LoopRuns(LoopState, vocab_size)
    /\ pc' = "done"
    /\ UNCHANGED <<inputs, tokenizer, special_ids, chunk_pieces, chunks,
                   word_freq, type_byteids, pair_counts, heap, merges,
                   bpe2_vars, tok_vars, chunk_vars, file_vars,
                   list_vars>>

\* train_bpe of train_bpe2.py called on the same arguments
CallTrainBpe2 ==
    /\ pc2 = "start"
    /\ bpe2' = train_bpe2_setup(corpus, special_tokens, num_processes)
    /\ pc2' = bpe2'.outcome
    /\ UNCHANGED <<inputs, train_vars, tok_vars, chunk_vars, file_vars,
                   list_vars>>

TrainNext == Setup \/ MergeLoopIter \/ Return \/ CallTrainBpe2

SpecTrain == TrainInit /\ [][TrainNext]_vars

\* ------------------------------------------------------------------------
\* The chunker on its own
\* ------------------------------------------------------------------------
ChunkInit ==
    /\ corpus \in ChunkFiles
    /\ special_tokens \in SpecialLists
    /\ num_processes \in NumProcesses
    /\ vocab_size = 0
    /\ NoTraining
    /\ NoTokenizer
    /\ NoChunking
    /\ NoFiles
    /\ NoList
    /\ tk_args = <<>>

\* find_chunk_boundaries(file, num_processes, special_tokens_bytes)
CallFindChunkBoundaries ==
    /\ cb_pc = "start"
    /\ IF BoundaryError(num_processes) # "none"
       THEN /\ cb_pc' = BoundaryError(num_processes)
            /\ chunk_boundaries' = chunk_boundaries
       ELSE /\ cb_pc' = "returned"
            /\ chunk_boundaries' =
                   find_chunk_boundaries(corpus, num_processes,
                                         EncodeAll(special_tokens))
    /\ UNCHANGED <<inputs, train_vars, bpe2_vars, tok_vars, file_vars,
                   list_vars>>

ChunkNext == CallFindChunkBoundaries

SpecChunk == ChunkInit /\ [][ChunkNext]_vars

\* ------------------------------------------------------------------------
\* Encoding and decoding
\* ------------------------------------------------------------------------
TokInit ==
    /\ tk_args \in TrainedArgs \cup HandArgs
    /\ NoTokenizer
    /\ corpus = <<>>
    /\ special_tokens = <<>>
    /\ vocab_size = 0
    /\ num_processes = 1
    /\ NoTraining
    /\ NoChunking
    /\ NoFiles
    /\ NoList

\* Tokenizer(vocab, merges, special_tokens)
Construct ==
    /\ tk_pc = "new"
    /\ \E t \in {TokenizerInit(tk_args.vocab, tk_args.merges,
                               tk_args.special_tokens)} :
        IF t.raised
        THEN tk_pc' = "ValueError" /\ tk' = tk
        ELSE tk_pc' = "ready" /\ tk' = t
    /\ UNCHANGED <<inputs, train_vars, bpe2_vars, chunk_vars, file_vars,
                   tk_args, text, pieces, piece_ids, ids, decoded,
                   list_vars>>

\* encode(text)
Encode ==
    /\ tk_pc = "ready"
    /\ \E t \in Texts :
        /\ text' = t
        /\ pieces' = pretokenize(tk, t)
        /\ \E r \in {EncodeOf(tk, pieces')} :
            /\ ids' = r.ids
            /\ tk_pc' = IF r.raised THEN "KeyError" ELSE "encoded"
        /\ piece_ids' = IF tk_pc' = "KeyError" THEN <<>>
                        ELSE [k \in 1..Len(pieces') |-> EncodePiece(tk, pieces'[k])]
    /\ UNCHANGED <<inputs, train_vars, bpe2_vars, chunk_vars, file_vars,
                   tk_args, tk, decoded,
                   list_vars>>

\* decode(ids)
Decode ==
    /\ tk_pc = "encoded"
    /\ decoded' = decode(tk, ids)
    /\ tk_pc' = "decoded"
    /\ UNCHANGED <<inputs, train_vars, bpe2_vars, chunk_vars, file_vars,
                   tk_args, tk, text, pieces, piece_ids, ids,
                   list_vars>>

TokNext == Construct \/ Encode \/ Decode

SpecTok == TokInit /\ [][TokNext]_vars

\* ------------------------------------------------------------------------
\* Saving a vocab and a merges list and loading them again
\* ------------------------------------------------------------------------
FilesInit ==
    /\ tk_args \in TrainedArgs \cup HandArgs \cup FileArgs
    /\ NoTokenizer
    /\ corpus = <<>>
    /\ special_tokens = <<>>
    /\ vocab_size = 0
    /\ num_processes = 1
    /\ NoTraining
    /\ NoChunking
    /\ NoFiles
    /\ NoList

\* save_vocab_json(vocab, ...) and save_merges_txt(merges, ...), as main()
\* of try_bpe.py calls them
SaveFiles ==
    /\ ff_pc = "start"
    /\ files' = [vocab_json |-> save_vocab_json(tk_args.vocab),
                 merges_txt |-> save_merges_txt(tk_args.merges)]
    /\ ff_pc' = "saved"
    /\ UNCHANGED <<inputs, train_vars, bpe2_vars, chunk_vars, tok_vars, loaded,
                   list_vars>>

\* from_files(BPETokenizer, vocab_filepath, merges_filepath, special_tokens)
FromFiles ==
    /\ ff_pc = "saved"
    /\ \E v \in {LoadVocab(files.vocab_json)} :
           \E t \in {from_files(v, files.merges_txt)} :
               /\ loaded' = t
               /\ ff_pc' = t.outcome
    /\ UNCHANGED <<inputs, train_vars, bpe2_vars, chunk_vars, tok_vars, files,
                   list_vars>>

FilesNext == SaveFiles \/ FromFiles

SpecFiles == FilesInit /\ [][FilesNext]_vars

\* ------------------------------------------------------------------------
\* A DoublyLinkedList and the calls of its methods
\* ------------------------------------------------------------------------
\* the values stored in the nodes
ListValues == {"x", "y"}

\* the nodes currently in the list
InList == Range(IterFrom(dll, dll.head, Len(dll.node) + 1))

ListInit ==
    /\ dll = DoublyLinkedListInit
    /\ corpus = <<>>
    /\ special_tokens = <<>>
    /\ vocab_size = 0
    /\ num_processes = 1
    /\ tk_args = <<>>
    /\ NoTraining
    /\ NoTokenizer
    /\ NoChunking
    /\ NoFiles

\* lst.append(value), while fewer than MaxNodes nodes were created
CallAppend ==
    /\ Len(dll.node) < MaxNodes
    /\ \E value \in ListValues : dll' = append(dll, value)
    /\ UNCHANGED <<inputs, train_vars, bpe2_vars, tok_vars, chunk_vars,
                   file_vars>>

\* lst.remove(node) for a node of the list
CallRemove ==
    /\ \E nd \in InList : dll' = remove(dll, nd)
    /\ UNCHANGED <<inputs, train_vars, bpe2_vars, tok_vars, chunk_vars,
                   file_vars>>

\* lst.insert_after(node, value) for a node of the list
CallInsertAfter ==
    /\ Len(dll.node) < MaxNodes
    /\ \E nd \in InList, value \in ListValues :
           dll' = insert_after(dll, nd, value)
    /\ UNCHANGED <<inputs, train_vars, bpe2_vars, tok_vars, chunk_vars,
                   file_vars>>

ListNext == CallAppend \/ CallRemove \/ CallInsertAfter

SpecList == ListInit /\ [][ListNext]_vars
\* ------------------------------------------------------------------------
\* Properties of training
\* ------------------------------------------------------------------------
\* the pair adopted by a step that records a merge: the key add_merge stored
\* under the new ID
Adopted ==
    CHOOSE p \in DOMAIN tokenizer'.merges :
        tokenizer'.merges[p] = DictLen(tokenizer.vocab)

\* p has the greatest count of pair_counts and, among the pairs with that
\* count, the greatest byte tuple
GreatestPair(p) ==
    \A q \in DOMAIN pair_counts :
        /\ pair_counts[q] <= Get0(pair_counts, p)
        /\ (pair_counts[q] = Get0(pair_counts, p)) =>
               ~TupleLess(PairKey(tokenizer.vocab, p), PairKey(tokenizer.vocab, q))

\* C1: at every merge train_bpe adopts, the adopted pair has the greatest
\* current count among all pairs of pair_counts, and among the pairs tied at
\* that count it has the greatest byte tuple (bytes_of(x), bytes_of(y)).
C1_AdoptsGreatestPair ==
    [][Len(merges') = Len(merges) + 1 => GreatestPair(Adopted)]_vars

\* C2: with no special token declared, after any number of adopted merges
\* byte2id[vocab[i]] = i for every assigned ID i, and no merge is recorded
\* twice.
C2_SymbolTableBijection ==
    special_tokens = <<>> =>
        /\ \A i \in DOMAIN tokenizer.vocab :
               tokenizer.byte2id[tokenizer.vocab[i]] = i
        /\ \A r, s \in 1..Len(merges) : merges[r] = merges[s] => r = s

\* the byte strings of the declared special tokens
SpecialBytes == Range(EncodeAll(special_tokens))

\* x is the ID of a special token: one of special_ids, one of the IDs
\* BPETokenizer.__init__ assigned, or an ID whose bytes are a special token
IsSpecialId(x) ==
    \/ x \in special_ids
    \/ x \in NumBaseBytes..(NumBaseBytes + Len(special_tokens) - 1)
    \/ tokenizer.vocab[x] \in SpecialBytes

\* C3: for any corpus and any list of declared special tokens, a single byte
\* included, no merge adopted by train_bpe has a special-token ID as its left
\* or right element.
C3_NoSpecialInMerges ==
    \A p \in DOMAIN tokenizer.merges : ~IsSpecialId(p[1]) /\ ~IsSpecialId(p[2])

\* training returned with a merge adopted, and a single-byte special token
\* was declared and found in the corpus
C3_Witness ==
    /\ pc = "done"
    /\ merges # <<>>
    /\ \E k \in DOMAIN special_tokens : Len(special_tokens[k]) = 1
    /\ \E c \in DOMAIN chunk_pieces :
           \E j \in DOMAIN chunk_pieces[c] : chunk_pieces[c][j].special

\* x occurs in w as a contiguous run of bytes
IsSubstring(x, w) == \E s \in 0..(Len(w) - Len(x)) : MatchesAt(w, s, x)

\* x lies within one pre-token of the corpus
InSomePretoken(x) == \E k \in DOMAIN word_freq : IsSubstring(x, word_freq[k][1])

C7_SameMergesForEveryK ==
    pc = "done" => merges = TrainedMerges(corpus, vocab_size, special_tokens, 1)

\* C8: the token lists pretokenize_file yields for the chunks of
\* find_chunk_boundaries, concatenated, are the pre-tokens of the whole file
\* taken as one chunk.
C8_ChunksReproduceWholeFile ==
    pc \in {"loop", "done"} =>
        Flatten(chunks) = PieceBytes(ChunkPieces(corpus, 0, EncodeAll(special_tokens)))

\* the offset in its buffer of piece k of a list of pieces that covers the
\* buffer
OffsetOf(ps, k) == Len(Flatten(PieceBytes(SubSeq(ps, 1, k - 1))))

\* some token of toks begins in buf at offset o
SpecialBeginsAt(buf, o, toks) == \E s \in DOMAIN toks : MatchesAt(buf, o, toks[s])

\* the pieces ps split their buffer at the earliest occurrence of a token of
\* toks and emit the longest token that matches there: no token begins
\* inside a Normal piece, and a Special piece is a longest token at its
\* offset
SplitsEarliestLongest(ps, toks) ==
    \A k \in DOMAIN ps :
        IF ps[k].special
        THEN \A s \in DOMAIN toks :
                 MatchesAt(Flatten(PieceBytes(ps)), OffsetOf(ps, k), toks[s])
                     => Len(toks[s]) <= Len(ps[k].bytes)
        ELSE \A o \in OffsetOf(ps, k)..(OffsetOf(ps, k) + Len(ps[k].bytes) - 1) :
                 ~SpecialBeginsAt(Flatten(PieceBytes(ps)), o, toks)

\* C9: pretokenize_file splits every chunk at the earliest occurrence of any
\* declared special token and, when several match at that offset, emits the
\* longest as the special piece, whatever the order of declaration.
C9_FileSplitsEarliestLongest ==
    \A c \in DOMAIN chunk_pieces :
        SplitsEarliestLongest(chunk_pieces[c], EncodeAll(special_tokens))

\* the table after the merges recorded so far: the ID of rank r maps to
\* a \o b, and a and b are the bytes of IDs below it
MergeTable ==
    \A r \in 1..Len(merges) :
        \E m \in {NumBaseBytes + Len(special_tokens) + r - 1} :
            /\ m \in DOMAIN tokenizer.vocab
            /\ tokenizer.vocab[m] = merges[r][1] \o merges[r][2]
            /\ \E i \in 0..(m - 1) : tokenizer.vocab[i] = merges[r][1]
            /\ \E j \in 0..(m - 1) : tokenizer.vocab[j] = merges[r][2]

\* a step that records the merge (a, b) at rank r = Len(merges): a and b
\* are in byte2id before the step under IDs below m = 256 + |specials| + r,
\* the adopted pair is a pair of IDs below m with the bytes a and b, and m
\* is a new ID
MergeStep ==
    Len(merges') = Len(merges) + 1 =>
        \E m \in {NumBaseBytes + Len(special_tokens) + Len(merges)} :
            /\ merges'[Len(merges')] = PairKey(tokenizer.vocab, Adopted)
            /\ \A x \in Range(merges'[Len(merges')]) :
                   x \in DOMAIN tokenizer.byte2id /\ tokenizer.byte2id[x] < m
            /\ Adopted[1] < m /\ Adopted[2] < m
            /\ m \notin DOMAIN tokenizer.vocab
            /\ m \in DOMAIN tokenizer'.vocab

\* C10: for every merge (a, b) recorded at zero-based rank r, a and b are in
\* the symbol table before the merge is recorded, the new ID
\* m = 256 + |specials| + r is greater than the IDs of a and of b, and the
\* table maps m to a \o b.
C10_MergeWellFounded == []MergeTable /\ [][MergeStep]_vars

\* training returned with two merges or more and a special token declared
C10_Witness ==
    /\ pc = "done"
    /\ Len(merges) >= 2
    /\ special_tokens # <<>>

\* ------------------------------------------------------------------------
\* Properties of encoding and decoding
\* ------------------------------------------------------------------------
\* the 0-based indices of seq at which an adjacent pair has a rank
RankedAt(ranks, seq) ==
    {i \in 0..(Len(seq) - 2) : <<seq[i + 1], seq[i + 2]>> \in DOMAIN ranks}

RankAt(ranks, seq, i) == ranks[<<seq[i + 1], seq[i + 2]>>]

\* the leftmost of the indices whose pair has the least rank
LeftmostMinRank(ranks, seq) ==
    Min({i \in RankedAt(ranks, seq) :
            \A j \in RankedAt(ranks, seq) :
                RankAt(ranks, seq, i) <= RankAt(ranks, seq, j)})

\* the reduction that merges the leftmost adjacent pair of least rank until
\* no adjacent pair has a rank
RECURSIVE Reduce(_, _)
ReduceAt(t, seq, i) ==
    Reduce(t, SubSeq(seq, 1, i)
              \o <<t.byte2id[t.vocab[seq[i + 1]] \o t.vocab[seq[i + 2]]]>>
              \o SubSeq(seq, i + 3, Len(seq)))

Reduce(t, seq) ==
    IF RankedAt(t.merge_ranks, seq) = {} THEN seq
    ELSE ReduceAt(t, seq, LeftmostMinRank(t.merge_ranks, seq))

\* the per-byte singleton IDs of a byte string
Singletons(t, data) == [k \in 1..Len(data) |-> t.byte2id[<<data[k]>>]]

C6_RoundTrip ==
    (tk_pc # "new" /\ tk_args.trained) =>
        /\ tk_pc \notin {"ValueError", "KeyError"}
        /\ tk_pc = "decoded" => decoded = text
        /\ tk_pc \in {"encoded", "decoded"} =>
               /\ JoinVocab(tk.vocab, ids) = Utf8Encode(text)
               /\ \A k \in DOMAIN pieces :
                      ~pieces[k].special =>
                          \A s \in Range(EncodeSteps(tk, InitialSeq(tk, pieces[k].bytes))) :
                              JoinVocab(tk.vocab, s) = pieces[k].bytes

\* a text with a special token and a pre-token that took a merge was
\* encoded and decoded by a trained Tokenizer
C6_Witness ==
    /\ tk_pc = "decoded"
    /\ tk_args.trained
    /\ \E k \in DOMAIN pieces : pieces[k].special
    /\ \E k \in DOMAIN pieces :
           ~pieces[k].special /\ Len(piece_ids[k]) < Len(pieces[k].bytes)


\* ------------------------------------------------------------------------
\* The size of the vocabulary
\* ------------------------------------------------------------------------
InitialVocabSize == NumBaseBytes + Len(special_tokens)

\* C11: at every point of the merge loop of train_bpe and on return,
\* len(vocab) = 256 + |special_tokens| + len(merges) and len(vocab) is at
\* most max(vocab_size, 256 + |special_tokens|): no merge is adopted once
\* the vocabulary has reached vocab_size
C11_VocabSizeAccounting ==
    pc \in {"loop", "done"} =>
        /\ DictLen(tokenizer.vocab) = InitialVocabSize + Len(merges)
        /\ DictLen(tokenizer.vocab) <= Max({vocab_size, InitialVocabSize})

\* train_bpe returned because the vocabulary reached vocab_size, with
\* entries left on the heap
C11_Witness ==
    /\ pc = "done"
    /\ merges # <<>>
    /\ heap # <<>>
    /\ DictLen(tokenizer.vocab) = vocab_size

\* ------------------------------------------------------------------------
\* Termination of the merge loop
\* ------------------------------------------------------------------------
\* on an empty corpus the loop condition fails at once
EmptyCorpusReturnsAtOnce ==
    (corpus = <<>> /\ pc \in {"loop", "done"}) =>
        /\ ~LoopRuns(LoopState, vocab_size)
        /\ DictLen(tokenizer.vocab) = InitialVocabSize
        /\ merges = <<>>

\* the measure of what is left of the loop: the room left in the vocabulary,
\* then the length of the heap
Variant(st) == <<vocab_size - DictLen(st.tk.vocab), Len(st.heap)>>

VariantLess(v, w) ==
    /\ v[1] >= 0
    /\ v[1] < w[1] \/ (v[1] = w[1] /\ v[2] < w[2])

\* an iteration either adopts a merge or leaves the vocabulary as it is and
\* shrinks the heap
IterationDecreasesVariant ==
    (pc = "loop" /\ LoopRuns(LoopState, vocab_size)) =>
        VariantLess(Variant(LoopIter(LoopState, word_freq, special_ids)),
                    Variant(LoopState))

\* C12: for every corpus, special-token list and vocab_size the merge loop
\* of train_bpe terminates: each iteration either adopts a merge, of which
\* there are at most vocab_size - len(vocab), or shrinks the heap; on an
\* empty corpus no iteration is executed and the result is a vocab of size
\* 256 + |specials| and an empty merges list
C12_MergeLoopTerminates ==
    /\ EmptyCorpusReturnsAtOnce
    /\ IterationDecreasesVariant

\* the loop ran until the heap was empty, after two merges or more
C12_Witness ==
    /\ pc = "done"
    /\ Len(merges) >= 2
    /\ heap = <<>>

\* ------------------------------------------------------------------------
\* Configuration errors
\* ------------------------------------------------------------------------
ConfigurationError == vocab_size < InitialVocabSize \/ num_processes < 1

\* C13: train_bpe treats vocab_size < 256 + |specials| and num_processes < 1
\* as configuration errors that are fatal at start: it ends in an error
\* outcome before any pre-tokenization or merging and does not return a
\* vocab and merges list
C13_ConfigErrorsFatalAtStart ==
    ConfigurationError =>
        /\ pc \in {"start", "ZeroDivisionError", "IndexError"}
        /\ chunks = <<>>
        /\ merges = <<>>

\* ------------------------------------------------------------------------
\* A declared special token that is absent from vocab
\* ------------------------------------------------------------------------
UnknownSpecial(piece) == piece.special /\ piece.bytes \notin DOMAIN tk.byte2id

\* C14: when Tokenizer.encode meets a special-token candidate whose bytes
\* are not in the symbol table it does not fail: the piece is encoded as a
\* Normal piece, by byte-level initialization followed by merges
C14_UnknownSpecialDowngraded ==
    (/\ tk_pc \in {"KeyError", "encoded", "decoded"}
     /\ \E k \in DOMAIN pieces : UnknownSpecial(pieces[k])) =>
        /\ tk_pc # "KeyError"
        /\ \A k \in DOMAIN pieces :
               UnknownSpecial(pieces[k]) =>
                   piece_ids[k] = encode_bytes(tk, pieces[k].bytes)

\* ------------------------------------------------------------------------
\* Saving and loading
\* ------------------------------------------------------------------------
ValidUtf8(bs) == Utf8Encode(Utf8DecodeIgnore(bs)) = bs

AllTokensValidUtf8 ==
    /\ \A i \in DOMAIN tk_args.vocab : ValidUtf8(tk_args.vocab[i])
    /\ \A k \in DOMAIN tk_args.merges :
           ValidUtf8(tk_args.merges[k][1]) /\ ValidUtf8(tk_args.merges[k][2])

\* the merges of the loaded tokenizer as byte pairs, in the order of
\* insertion
LoadedMerges ==
    [k \in DOMAIN loaded.merges |->
        <<loaded.vocab[loaded.merges[k][1][1]],
          loaded.vocab[loaded.merges[k][1][2]]>>]

\* C15: for a vocab and merges list whose tokens are all valid UTF-8
\* (tokens with whitespace such as ' ' and ' l' included), saving them with
\* save_vocab_json and save_merges_txt and loading them with from_files
\* yields a tokenizer whose vocab and whose merges in adoption order equal
\* the originals
C15_FilesRoundTrip ==
    (ff_pc \notin {"start", "saved"} /\ AllTokensValidUtf8) =>
        /\ ff_pc = "returned"
        /\ loaded.vocab = tk_args.vocab
        /\ LoadedMerges = tk_args.merges

\* ------------------------------------------------------------------------
\* The example corpus 'low low ... widest'
\* ------------------------------------------------------------------------
LowExampleRun ==
    /\ pc = "done"
    /\ corpus = LowCorpus
    /\ special_tokens = <<>>
    /\ vocab_size = NumBaseBytes + 4

\* C16 as stated: training on the line 'low low low low low lower lower
\* newest newest newest newest newest newest widest widest widest' with no
\* special tokens and vocab_size = 260 adopts exactly four merges, in order
\* (' ', 'l'), (' l', 'o'), (' lo', 'w'), ('e', 's')
C16_LowExampleMergesAsStated ==
    LowExampleRun =>
        merges = << <<(<<32>>), (<<108>>)>>,
                    <<(<<32, 108>>), (<<111>>)>>,
                    <<(<<32, 108, 111>>), (<<119>>)>>,
                    <<(<<101>>), (<<115>>)>> >>

\* C16: training on that line with no special tokens and vocab_size = 260
\* adopts exactly four merges, in order ('s', 't'), ('e', 'st'), ('o', 'w'),
\* ('l', 'ow'): the pairs (s, t) and (e, s) tie at count 9 and the greater
\* byte pair is taken
C16_LowExampleMerges ==
    LowExampleRun =>
        merges = << <<(<<115>>), (<<116>>)>>,
                    <<(<<101>>), (<<115, 116>>)>>,
                    <<(<<111>>), (<<119>>)>>,
                    <<(<<108>>), (<<111, 119>>)>> >>

\* the run on the example corpus has returned with four merges
C16_Witness == LowExampleRun /\ Len(merges) = 4

\* ------------------------------------------------------------------------
\* The list returned by find_chunk_boundaries
\* ------------------------------------------------------------------------
StrictlyIncreasing(s) == \A i \in 1..(Len(s) - 1) : s[i] < s[i + 1]

\* C17: for every file of size F, every K >= 1 and every special-token
\* set, find_chunk_boundaries returns a strictly increasing list of byte
\* offsets whose first element is 0 and whose last element is F, describing
\* at most K chunks
C17_BoundariesOrdered ==
    cb_pc = "returned" =>
        /\ num_processes >= 1
        /\ chunk_boundaries # <<>>
        /\ StrictlyIncreasing(chunk_boundaries)
        /\ chunk_boundaries[1] = 0
        /\ chunk_boundaries[Len(chunk_boundaries)] = Len(corpus)
        /\ Len(chunk_boundaries) - 1 <= num_processes

\* the uniform guesses were distinct and the scan moved an interior guess
\* onto another boundary: the chunks returned are fewer than K
C17_Witness ==
    /\ cb_pc = "returned"
    /\ special_tokens # <<>>
    /\ num_processes > 1
    /\ Len(corpus) >= num_processes
    /\ Len(chunk_boundaries) - 1 < num_processes

\* ------------------------------------------------------------------------
\* pair_counts against the records
\* ------------------------------------------------------------------------
\* the positions of byte_ids at which the pair p begins
Occurrences(byte_ids, p) ==
    {i \in 1..(Len(byte_ids) - 1) : byte_ids[i] = p[1] /\ byte_ids[i + 1] = p[2]}

\* the sum over the records of freq times the number of adjacent occurrences
\* of p in the record
RECURSIVE WeightedCount(_, _, _)
WeightedCount(recs, wf, p) ==
    IF recs = <<>> THEN 0
    ELSE FreqOf(wf, Head(recs)[1]) * Cardinality(Occurrences(Head(recs)[2], p))
         + WeightedCount(Tail(recs), wf, p)

TrueCount(p) == WeightedCount(type_byteids, word_freq, p)

\* the pairs adjacent in some record
AdjacentPairs ==
    UNION {{<<type_byteids[k][2][i], type_byteids[k][2][i + 1]>> :
               i \in 1..(Len(type_byteids[k][2]) - 1)} : k \in DOMAIN type_byteids}

\* every other pair has no entry in pair_counts and no occurrence
CountedPairs == DOMAIN pair_counts \cup AdjacentPairs

\* C18: between the iterations of the merge loop of train_bpe, for every
\* pair p of non-special symbol IDs, pair_counts[p] equals the sum over all
\* pre-token records of freq times the number of adjacent occurrences of p
\* in the record's current symbol sequence; no count is negative, and the
\* count of the pair just merged is 0, also for a pair (x, x) in a run x x x
C18_PairCountsExact ==
    pc \in {"loop", "done"} =>
        \A p \in CountedPairs :
            ~TouchesSpecial(p, special_ids) =>
                /\ Get0(pair_counts, p) = TrueCount(p)
                /\ Get0(pair_counts, p) >= 0

\* C19: every merge adopted by train_bpe is of a pair that, at the moment of
\* adoption, is adjacent in at least one pre-token record: its true weighted
\* count is > 0; a heap entry whose count is zero, negative or out of date
\* never leads to an adopted merge
C19_AdoptedPairOccurs ==
    [][Len(merges') = Len(merges) + 1 => TrueCount(Adopted) > 0]_vars

\* ------------------------------------------------------------------------
\* Where the chunker moves a guess
\* ------------------------------------------------------------------------
\* the offsets of file at or after guess at which a special token begins
SpecialStartsFrom(file, guess, special_tokens_bytes) ==
    {p \in guess..Len(file) :
        \E k \in DOMAIN special_tokens_bytes :
            MatchesAt(file, p, special_tokens_bytes[k])}

\* the earliest of them, the file size if there is none
EarliestSpecialFrom(file, guess, special_tokens_bytes) ==
    IF SpecialStartsFrom(file, guess, special_tokens_bytes) = {} THEN Len(file)
    ELSE Min(SpecialStartsFrom(file, guess, special_tokens_bytes))

\* C20: for a non-empty special-token set, find_chunk_boundaries moves each
\* interior uniform guess to the earliest absolute offset at or after the
\* guess at which a special token begins, an occurrence that straddles two
\* consecutive 4096-byte reads included, and to F only if no special token
\* begins at or after the guess: the offsets returned are 0, F and these
C20_GuessMovedToEarliestSpecial ==
    (cb_pc = "returned" /\ special_tokens # <<>>) =>
        Range(chunk_boundaries) =
            {0, Len(corpus)} \cup
            {EarliestSpecialFrom(corpus,
                                 BoundaryGuess(corpus, num_processes, i),
                                 EncodeAll(special_tokens)) :
                i \in 1..(num_processes - 1)}

\* ------------------------------------------------------------------------
\* The position index of train_bpe2.py
\* ------------------------------------------------------------------------
\* (d, i), 0-based, is a live adjacency of the pair p in docs
LiveAdjacency(docs, p, d, i) ==
    /\ d + 1 \in DOMAIN docs
    /\ i >= 0
    /\ i + 2 <= Len(docs[d + 1])
    /\ docs[d + 1][i + 1] = p[1]
    /\ docs[d + 1][i + 2] = p[2]

PosOf(pos, p) == IF p \in DOMAIN pos THEN pos[p] ELSE {}

\* every pair with a positive count has a live adjacency among its
\* positions, and every live adjacency is among the positions of its pair
IndexCoherent(docs, cnt, pos) ==
    /\ \A p \in DOMAIN cnt :
           cnt[p] > 0 =>
               \E e \in PosOf(pos, p) : LiveAdjacency(docs, p, e[1], e[2])
    /\ \A d \in 0..(Len(docs) - 1) :
           \A i \in 0..(Len(docs[d + 1]) - 2) :
               <<d, i>> \in PosOf(pos, <<docs[d + 1][i + 1], docs[d + 1][i + 2]>>)

RECURSIVE LeftToRight(_, _, _, _)
LeftToRight(seq, x, y, m) ==
    IF Len(seq) < 2 THEN seq
    ELSE IF seq[1] = x /\ seq[2] = y
    THEN <<m>> \o LeftToRight(SubSeq(seq, 3, Len(seq)), x, y, m)
    ELSE <<seq[1]>> \o LeftToRight(Tail(seq), x, y, m)

\* the records recs with every symbol sequence replaced from left to right
Replacement(recs, x, y, m) ==
    [k \in DOMAIN recs |-> <<recs[k][1], LeftToRight(recs[k][2], x, y, m)>>]

MoreThanOne(rec) == Len(rec[2]) > 1

\* no record of recs holds x immediately followed by y
NoAdjacency(recs, x, y) ==
    \A k \in DOMAIN recs : Occurrences(recs[k][2], <<x, y>>) = {}

\* C22: when train_bpe applies the merge of a pair (x, y) with new ID m,
\* each record is rewritten to the left-to-right non-overlapping
\* replacement of x y by m (a run of n copies of x under the pair (x, x)
\* becomes floor(n/2) copies of m, followed by one x when n is odd; the
\* records left with one symbol are dropped), and afterwards no record
\* contains x immediately followed by y
C22_RewriteLeftToRight ==
    [][Len(merges') = Len(merges) + 1 =>
          /\ type_byteids' =
                 SelectSeq(Replacement(type_byteids, Adopted[1], Adopted[2],
                                       DictLen(tokenizer.vocab)),
                           MoreThanOne)
          /\ NoAdjacency(type_byteids', Adopted[1], Adopted[2])]_vars

\* the first merge was of a pair (x, x) and left a record x x x as m x
C22_Witness ==
    /\ Len(merges) = 1
    /\ \E k \in DOMAIN type_byteids :
           /\ Len(type_byteids[k][1]) = 3
           /\ merges[1] = <<(<<type_byteids[k][1][1]>>), (<<type_byteids[k][1][1]>>)>>
           /\ type_byteids[k][2] =
                  <<NumBaseBytes + Len(special_tokens), type_byteids[k][1][3]>>

\* ------------------------------------------------------------------------
\* The heap against pair_counts
\* ------------------------------------------------------------------------
\* entry k of the heap carries the current count of its pair, which is not 0:
\* the entries the test on pop lets through
Current(k) ==
    /\ Get0(pair_counts, heap[k][2]) = 0 - heap[k][1]
    /\ heap[k][1] # 0

PositivePairs == {p \in DOMAIN pair_counts : pair_counts[p] > 0}

\* every pair with a positive count has an entry with its current count
EveryPositivePairOnHeap ==
    \A p \in PositivePairs :
        \E k \in DOMAIN heap : heap[k] = <<0 - pair_counts[p], p>>

\* the first entry that the test on pop lets through carries the greatest
\* count
FirstCurrentIsGreatest ==
    PositivePairs # {} =>
        \E k \in DOMAIN heap :
            /\ Current(k)
            /\ \A j \in 1..(k - 1) : ~Current(j)
            /\ \A p \in DOMAIN pair_counts : pair_counts[p] <= 0 - heap[k][1]

\* C23: at the start of every iteration of the merge loop of train_bpe, for
\* every pair p with pair_counts[p] > 0 the heap contains an entry
\* (-pair_counts[p], p) with p's current count, so that the filtering of
\* stale entries on pop never hides the pair with the greatest current
\* count; the pairs popped as ties and not selected are pushed back
C23_HeapCarriesCurrentCounts ==
    pc = "loop" => EveryPositivePairOnHeap /\ FirstCurrentIsGreatest

\* after a merge, at the start of an iteration, a pair has a positive count
\* and the heap holds a stale entry beside the current ones
C23_Witness ==
    /\ pc = "loop"
    /\ merges # <<>>
    /\ PositivePairs # {}
    /\ \E k \in DOMAIN heap : ~Current(k)

\* ------------------------------------------------------------------------
\* The bytes of a record
\* ------------------------------------------------------------------------
\* the record of the pre-token w, if type_byteids has one
RecordsOf(recs, w) == {k \in DOMAIN recs : recs[k][1] = w}

\* every record spells its pre-token; a record of a declared special token
\* is one special ID; a pre-token without a record was dropped as a single
\* symbol, whose bytes are the pre-token
RecordsSpellPretokens ==
    /\ \A k \in DOMAIN type_byteids :
           /\ JoinVocab(tokenizer.vocab, type_byteids[k][2]) = type_byteids[k][1]
           /\ type_byteids[k][1] \in SpecialBytes =>
                  /\ Len(type_byteids[k][2]) = 1
                  /\ type_byteids[k][2][1] \in special_ids
    /\ \A j \in DOMAIN word_freq :
           RecordsOf(type_byteids, word_freq[j][1]) = {} =>
               /\ merges # <<>>
               /\ word_freq[j][1] \in DOMAIN tokenizer.byte2id

\* an iteration of the loop leaves no record longer than it was, and leaves
\* a record of one symbol as it was
RecordsShrink ==
    \A k \in DOMAIN type_byteids' :
        \E j \in RecordsOf(type_byteids, type_byteids'[k][1]) :
            /\ Len(type_byteids'[k][2]) <= Len(type_byteids[j][2])
            /\ Len(type_byteids[j][2]) = 1 =>
                   type_byteids'[k][2] = type_byteids[j][2]

\* C24: in train_bpe, for every pre-token record, after any number of
\* merges the concatenation of the bytes of the record's symbols is the
\* record's original byte string, and the length of the sequence never
\* increases from one merge step to the next; a record whose bytes are a
\* declared special token is a single special ID and is never modified
C24_RecordBytesPreserved ==
    /\ [](pc \in {"loop", "done"} => RecordsSpellPretokens)
    /\ [][pc = "loop" => RecordsShrink]_vars

\* a merge was adopted and a record holds the merged symbol beside another
\* symbol, in a run whose corpus holds a declared special token
C24_Witness ==
    /\ pc \in {"loop", "done"}
    /\ merges # <<>>
    /\ \E j \in DOMAIN word_freq : word_freq[j][1] \in SpecialBytes
    /\ \E k \in DOMAIN type_byteids :
           /\ Len(type_byteids[k][2]) > 1
           /\ Len(type_byteids[k][2]) < Len(type_byteids[k][1])

\* ------------------------------------------------------------------------
\* The structure of a DoublyLinkedList
\* ------------------------------------------------------------------------
\* the nodes in forward and in reverse iteration
Forward == IterFrom(dll, dll.head, Len(dll.node) + 1)

Backward == ReversedFrom(dll, dll.tail, Len(dll.node) + 1)

Reverse(s) == [k \in DOMAIN s |-> s[Len(s) + 1 - k]]

\* C25: after any sequence of append, insert_after and remove calls whose
\* node arguments are nodes currently in the list, length is the number of
\* nodes reachable from head by next, head.prev and tail.next are None,
\* head and tail are both None exactly when length is 0, n.next.prev is n
\* for every node n with a successor, reverse iteration yields the forward
\* order reversed, and a removed node has prev = next = None
C25_ListWellFormed ==
    /\ dll.length = Len(Forward)
    /\ dll.head # None => dll.node[dll.head].prev = None
    /\ dll.tail # None => dll.node[dll.tail].next = None
    /\ (dll.head = None) = (dll.length = 0)
    /\ (dll.tail = None) = (dll.length = 0)
    /\ \A n \in Range(Forward) :
           dll.node[n].next # None => dll.node[dll.node[n].next].prev = n
    /\ Backward = Reverse(Forward)
    /\ \A n \in DOMAIN dll.node \ Range(Forward) :
           dll.node[n].prev = None /\ dll.node[n].next = None

\* a list of two nodes or more after a removal, an insertion in the middle
\* (a node created later precedes one created earlier) and an insertion
\* or append at the end (the node created last is the tail)
C25_Witness ==
    /\ dll.length >= 2
    /\ dll.head # None
    /\ dll.node[dll.tail].prev # None
    /\ dll.tail = Len(dll.node)
    /\ \E n \in DOMAIN dll.node : n \notin Range(Forward)
    /\ \E k \in 1..(Len(Forward) - 1) : Forward[k] > Forward[k + 1]
====
